---- MODULE Spec2Model ----
(***************************************************************************)
(* Model of the kata agent client of virtcontainers/kata_agent.go: the     *)
(* session state of a kataAgent (client handle, request handler table,     *)
(* dead flag, proxy pid and URL), the connection manager (connect,         *)
(* disconnect, markDead, reuseAgent), the request dispatcher (sendReq,     *)
(* readProcessStdout/Stderr) and the sandbox start/stop sequences, run by  *)
(* several goroutines that share one kataAgent.                            *)
(***************************************************************************)
EXTENDS Integers, Sequences, FiniteSets, TLC

\* ---- bounds of the model ----
NumThreads == 2
MaxOps == 2
MaxIfaces == 1
MaxMounts == 2
MaxVols == 2
MaxNs == 3
MaxEnvs == 2
MaxPath == 6
MaxDevs == 2
MaxHostname == 66
MaxChunks == 3

Threads == 1..NumThreads

\* ---- values ----
\* k.client == nil
NilClient == 0
\* a.client of the agent handed to reuseAgent, when it holds a handle
PeerHandle == 99
\* k.reqHandlers == nil: a map without entries
NilMap == {}
NoThread == 0

\* the message names registered by installReqFunc
ReqTable ==
  { "grpc.CheckRequest", "grpc.ExecProcessRequest", "grpc.CreateSandboxRequest",
    "grpc.DestroySandboxRequest", "grpc.CreateContainerRequest",
    "grpc.StartContainerRequest", "grpc.RemoveContainerRequest",
    "grpc.SignalProcessRequest", "grpc.UpdateRoutesRequest",
    "grpc.UpdateInterfaceRequest", "grpc.ListInterfacesRequest",
    "grpc.ListRoutesRequest", "grpc.AddARPNeighborsRequest",
    "grpc.OnlineCPUMemRequest", "grpc.ListProcessesRequest",
    "grpc.UpdateContainerRequest", "grpc.WaitProcessRequest",
    "grpc.TtyWinResizeRequest", "grpc.WriteStreamRequest",
    "grpc.CloseStdinRequest", "grpc.StatsContainerRequest",
    "grpc.PauseContainerRequest", "grpc.ResumeContainerRequest",
    "grpc.ReseedRandomDevRequest", "grpc.GuestDetailsRequest",
    "grpc.MemHotplugByProbeRequest", "grpc.CopyFileRequest",
    "grpc.SetGuestDateTimeRequest", "grpc.StartTracingRequest",
    "grpc.StopTracingRequest", "grpc.GetOOMEventRequest" }

\* installReqFunc: the method of k.client that the handler registered under
\* each message name calls
installReqFunc ==
  [ n \in ReqTable |->
      CASE n = "grpc.CheckRequest" -> "Check"
        [] n = "grpc.ExecProcessRequest" -> "ExecProcess"
        [] n = "grpc.CreateSandboxRequest" -> "CreateSandbox"
        [] n = "grpc.DestroySandboxRequest" -> "DestroySandbox"
        [] n = "grpc.CreateContainerRequest" -> "CreateContainer"
        [] n = "grpc.StartContainerRequest" -> "StartContainer"
        [] n = "grpc.RemoveContainerRequest" -> "RemoveContainer"
        [] n = "grpc.SignalProcessRequest" -> "SignalProcess"
        [] n = "grpc.UpdateRoutesRequest" -> "UpdateRoutes"
        [] n = "grpc.UpdateInterfaceRequest" -> "UpdateInterface"
        [] n = "grpc.ListInterfacesRequest" -> "ListInterfaces"
        [] n = "grpc.ListRoutesRequest" -> "ListRoutes"
        [] n = "grpc.AddARPNeighborsRequest" -> "AddARPNeighbors"
        [] n = "grpc.OnlineCPUMemRequest" -> "OnlineCPUMem"
        [] n = "grpc.ListProcessesRequest" -> "ListProcesses"
        [] n = "grpc.UpdateContainerRequest" -> "UpdateContainer"
        [] n = "grpc.WaitProcessRequest" -> "WaitProcess"
        [] n = "grpc.TtyWinResizeRequest" -> "TtyWinResize"
        [] n = "grpc.WriteStreamRequest" -> "WriteStdin"
        [] n = "grpc.CloseStdinRequest" -> "CloseStdin"
        [] n = "grpc.StatsContainerRequest" -> "StatsContainer"
        [] n = "grpc.PauseContainerRequest" -> "PauseContainer"
        [] n = "grpc.ResumeContainerRequest" -> "ResumeContainer"
        [] n = "grpc.ReseedRandomDevRequest" -> "ReseedRandomDev"
        [] n = "grpc.GuestDetailsRequest" -> "GetGuestDetails"
        [] n = "grpc.MemHotplugByProbeRequest" -> "MemHotplugByProbe"
        [] n = "grpc.CopyFileRequest" -> "CopyFile"
        [] n = "grpc.SetGuestDateTimeRequest" -> "SetGuestDateTime"
        [] n = "grpc.StartTracingRequest" -> "StartTracing"
        [] n = "grpc.StopTracingRequest" -> "StopTracing"
        [] n = "grpc.GetOOMEventRequest" -> "GetOOMEvent" ]

\* request timeouts, in seconds
maxHostnameLen == 64
grpcMaxDataSize == 1024 * 1024
checkRequestTimeout == 30
defaultRequestTimeout == 60
\* a context without deadline
NoTimeout == 0

\* context.Background(), and no cancel function
Background == [timeout |-> NoTimeout, cancel |-> FALSE]

\* getReqContext with the default timeout for every request
getReqContext_AllDefault(reqName) ==
  [timeout |-> defaultRequestTimeout, cancel |-> TRUE]

\* getReqContext(reqName): the deadline of the call's context and whether
\* a cancel function is returned
getReqContext(reqName) ==
  CASE reqName \in {"grpc.WaitProcessRequest", "grpc.GetOOMEventRequest"} ->
         Background
    [] reqName = "grpc.CheckRequest" ->
         [timeout |-> checkRequestTimeout, cancel |-> TRUE]
    [] OTHER ->
         [timeout |-> defaultRequestTimeout, cancel |-> TRUE]

\* request kinds the callers of sendReq are drawn from; "" is the message
\* name of a request that is not a registered protocol message
SendKinds == { "grpc.CheckRequest", "" }

\* the handles NewAgentClient can return
HandleIds == 1..(4 * MaxOps + NumThreads)

\* proxy states the store can hold (load) and proxies handed to setProxy
LoadStates == { [ProxyPid |-> 0, URL |-> ""], [ProxyPid |-> 1, URL |-> "u1"] }
SetProxyArgs == { [ProxyPid |-> -1, URL |-> ""], [ProxyPid |-> 2, URL |-> "u2"] }

VARIABLES
  \* kataAgent fields
  dead,            \* k.dead
  client,          \* k.client: NilClient or a handle
  reqHandlers,     \* k.reqHandlers: NilMap or the set of registered names
  state,           \* k.state: [ProxyPid, URL]
  keepConn,        \* k.keepConn
  dynamicTracing,  \* k.dynamicTracing
  vmSocket,        \* k.vmSocket: "socket" or "invalid"
  mutex,           \* the embedded sync.Mutex: NoThread or its holder
  \* environment
  open,            \* handles made by NewAgentClient and not closed yet
  running,         \* pids of the proxy processes that are alive
  crashed,         \* the process died of an unrecovered panic
  \* package-level variables and the sandbox handed to the operations
  sharedDir9pOptions,        \* mount options of the 9p shared directory
  sharedDirVirtioFSOptions,  \* mount options of the virtio-fs shared directory
  sandbox,         \* capabilities, hypervisor configuration and shm size
  \* goroutines: for each one a record
  \*   pc        position in the code
  \*   op        the operation the goroutine was asked to run
  \*   req       message name of the request being sent
  \*   arg       argument of reuseAgent (a.client)
  \*   todo      requests a sandbox operation has still to send
  \*   cres      outcome of the goroutine's last connect()
  \*   inflight  handle the goroutine's wire call is running on
  \*   call      method of the handle the wire call runs
  \*   ctx       context of the wire call
  \*   ret       result of the operation
  \*   wire      wire calls started since sendReq was entered
  \*   dials     calls of NewAgentClient since connect() was entered
  \*   loc       arguments and local variables of the operation
  g,
  \* history
  nops,            \* operations started so far
  mdReturned       \* some markDead() has returned

sessVars == << dead, client, reqHandlers, state, keepConn, dynamicTracing,
               vmSocket, mutex >>
envVars == << open, running, crashed >>
storageVars == << sharedDir9pOptions, sharedDirVirtioFSOptions, sandbox >>
histVars == << nops, mdReturned >>
vars == << sessVars, envVars, storageVars, g, histVars >>

\* the package-level option lists as the program starts with them
InitOptions ==
  /\ sharedDir9pOptions = << "trans=virtio,version=9p2000.L,cache=mmap", "nodev" >>
  /\ sharedDirVirtioFSOptions = << >>

\* a sandbox whose hypervisor shares no filesystem and that has no shm
NoSharing ==
  [ fsSharing |-> FALSE, SharedFS |-> "virtio-9p", VirtioFSCache |-> "none",
    VirtioFSCacheSize |-> 0, Msize9p |-> 0, shmSize |-> 0 ]

\* a pointer is the empty sequence when nil and holds one value otherwise;
\* a subtree that the constrainer reads nothing of is "nil" or "set"
Nil == << >>
Ptr(v) == << v >>

\* grpcSpec.Linux.Resources with nothing set, and a specification with
\* nothing but these resources; a string is the sequence of its characters
NoResources ==
  [ Devices |-> "nil", Pids |-> "nil", BlockIO |-> "nil",
    HugepageLimits |-> "nil", Network |-> "nil", Memory |-> "nil",
    CPU |-> Nil ]
NoSpec ==
  [ Hooks |-> "nil", Seccomp |-> "nil", SelinuxLabel |-> "",
    Resources |-> Ptr(NoResources), CgroupsPath |-> << >>, Devices |-> << >> ]

\* createContainer(sandbox, c): what it is given and its local variables
\*   mounts            ociSpec.Mounts, of c.GetPatchedOCISpec()
\*   shmSize           sandbox.shmSize
\*   epheStorages, localStorages   results of handleEphemeralStorage and
\*                     handleLocalStorage
\*   blockMounts       the mounts of c.mounts that have a BlockDeviceID
\*   devices           c.devices
\*   ctrDevices        result of appendDevices
\*   blockDeviceDriver sandbox.config.HypervisorConfig.BlockDeviceDriver
\*   proxyPath         the way startProxy went
\*   agentURL          the agentURL of the proxyParams of startProxy
\*   pid, uri          what k.proxy.start returned
\*   stopped           the pid given to k.proxy.stop, or nil
\*   volumeStorages    result of handleBlockVolumes
\*   ociNamespaces     ociSpec.Linux.Namespaces
\*   namespaces        grpcSpec.Linux.Namespaces
\*   envs              c.config.Cmd.Envs
\*   enableAgentPidNs  sandbox.config.EnableAgentPidNs
\*   sharedPidNs, agentPidNs   as sent in the CreateContainerRequest
\*   oci               ociSpec but for its mounts and namespaces
\*   spec              grpcSpec but for its namespaces
\*   passSeccomp       !sandbox.config.DisableGuestSeccomp &&
\*                     sandbox.seccompSupported
\*   err               the named result err ("" is nil)
\*   log               calls made by rollbackFailingContainerCreation
\* of copyFile(src, dst)
\*   fileSize          int64(len(b)) of the file read
\*   b                 the bytes still to send: b is file[From : From + Len]
\*   remainingBytes, offset   the variables of the loop
\*   calls             the requests given to sendReq, each with its Data (a
\*                     part of the file, or nil), Offset and FileSize
\* and of startSandbox(sandbox)
\*   hostname          sandbox.config.Hostname, a sequence of bytes
\*   reqHostname       hostname, sent as req.Hostname
\*   storages          the storages setupStorages returned
\* and of the guest, as the operation has left it
\*   created           the agent has answered the CreateContainer call with
\*                     success: the container exists in the guest
NoLocals ==
  [ mounts |-> << >>, shmSize |-> 0, epheStorages |-> << >>,
    localStorages |-> << >>,
    blockMounts |-> << >>, volumeStorages |-> << >>,
    devices |-> << >>, ctrDevices |-> << >>, blockDeviceDriver |-> "virtio-blk",
    proxyPath |-> "", agentURL |-> "", pid |-> 0, uri |-> "", stopped |-> << >>,
    ociNamespaces |-> << >>, namespaces |-> << >>, envs |-> << >>,
    enableAgentPidNs |-> FALSE, sharedPidNs |-> FALSE, agentPidNs |-> FALSE,
    oci |-> NoSpec, spec |-> NoSpec, passSeccomp |-> FALSE,
    err |-> "", log |-> << >>,
    fileSize |-> 0, b |-> [From |-> 0, Len |-> 0], remainingBytes |-> 0,
    offset |-> 0, calls |-> << >>,
    hostname |-> << >>, reqHostname |-> << >>, storages |-> << >>,
    created |-> FALSE ]

\* a goroutine that runs nothing
Idle ==
  [ pc |-> "idle", op |-> "none", req |-> "", arg |-> NilClient,
    todo |-> << >>, cres |-> "none", inflight |-> NilClient, call |-> "",
    ctx |-> Background, ret |-> "none", wire |-> 0, dials |-> 0,
    loc |-> NoLocals ]

\* state after init() and load(): no handle, not dead, proxy state as
\* restored from the store
Init ==
  /\ dead = FALSE
  /\ client = NilClient
  /\ reqHandlers = NilMap
  /\ state \in LoadStates
  /\ keepConn \in BOOLEAN
  /\ dynamicTracing \in BOOLEAN
  /\ vmSocket = "socket"
  /\ mutex = NoThread
  /\ open = {}
  /\ running = { p \in {state.ProxyPid} : p > 0 }
  /\ crashed = FALSE
  /\ InitOptions
  /\ sandbox = NoSharing
  /\ g = [t \in Threads |-> Idle]
  /\ nops = 0
  /\ mdReturned = FALSE

\* ---- helpers ----

\* the process runs and no operation is handing its result to its caller:
\* a finished operation touches nothing shared any more, and its return is
\* taken before any other step
Running == ~crashed /\ \A u \in Threads : g[u].pc # "done"

\* goroutine t is at position p of the code
At(t, p) == Running /\ g[t].pc = p

\* a goroutine that can take a call
Free(t) == g[t].pc = "idle"

\* startSandbox and stopSandbox are called with the sandbox locked by the
\* caller: no other operation of the sandbox's agent runs meanwhile
SandboxOps == { "startSandbox", "stopSandbox" }

\* goroutine t is inside startSandbox or stopSandbox
InSandboxOp(t) == g[t].op \in SandboxOps

\* where a goroutine goes when its sendReq or stream read returns r: back
\* to the caller of the agent, or on with the sandbox operation (s_ret); a
\* panic unwinds through s_ret too
Returned(t, r) ==
  IF r # "panic" /\ g[t].op \in {"sendReq", "readStream"} THEN "done" ELSE "s_ret"

\* where a goroutine goes when its connect() returns r
AfterConnect(t, r) ==
  CASE g[t].op = "connect" -> "done"
    [] g[t].op # "connect" /\ r # "ok" -> Returned(t, "connerr")
    [] g[t].op = "readStream" /\ r = "ok" -> "r_call"
    [] OTHER -> "s_lookup"

\* the result an operation reports when its connect() returns r
ConnectRet(t, r) ==
  CASE g[t].op = "connect" -> r
    [] r = "ok" -> g[t].ret
    [] OTHER -> "connerr"

\* goroutine t as it is when its connect() has returned r
Connected(t, r) ==
  [g[t] EXCEPT !.cres = r, !.ret = ConnectRet(t, r), !.pc = AfterConnect(t, r)]

\* where a goroutine goes when its disconnect() returns
AfterDisconnect(t) ==
  CASE g[t].op \in {"disconnect", "markDead"} -> "done"
    [] OTHER -> Returned(t, g[t].ret)

\* ---- connect ----

\* connect without its first test: a dead agent is dialed again
ConnCheckDead_NoQuarantine(t) ==
  /\ At(t, "c_dead")
  /\ g' = [g EXCEPT ![t].pc = "c_quick"]
  /\ UNCHANGED << sessVars, envVars, histVars, storageVars >>

\* if k.dead { return errors.New("Dead agent") }
ConnCheckDead(t) ==
  /\ At(t, "c_dead")
  /\ g' = [g EXCEPT ![t] = IF dead THEN Connected(t, "dead")
                                   ELSE [@ EXCEPT !.pc = "c_quick"]]
  /\ UNCHANGED << sessVars, envVars, histVars, storageVars >>

\* lockless quick pass: if k.client != nil { return nil }
ConnQuickPass(t) ==
  /\ At(t, "c_quick")
  /\ g' = [g EXCEPT ![t] = IF client # NilClient THEN Connected(t, "ok")
                                                 ELSE [@ EXCEPT !.pc = "c_lock"]]
  /\ UNCHANGED << sessVars, envVars, histVars, storageVars >>

\* connect without the second test of k.client, under the lock
ConnLock_NoRecheck(t) ==
  /\ At(t, "c_lock")
  /\ mutex = NoThread
  /\ mutex' = t
  /\ g' = [g EXCEPT ![t].pc = "c_probe"]
  /\ UNCHANGED << dead, client, reqHandlers, state, keepConn, dynamicTracing,
                  vmSocket, envVars, histVars, storageVars >>

\* k.Lock(); defer k.Unlock(); if k.client != nil { return nil }
ConnLock(t) ==
  /\ At(t, "c_lock")
  /\ mutex = NoThread
  /\ IF client # NilClient
       THEN /\ g' = [g EXCEPT ![t] = Connected(t, "ok")]
            /\ UNCHANGED mutex
       ELSE /\ g' = [g EXCEPT ![t].pc = "c_probe"]
            /\ mutex' = t
  /\ UNCHANGED << dead, client, reqHandlers, state, keepConn, dynamicTracing,
                  vmSocket, envVars, histVars, storageVars >>

\* syscall.Kill(pid, syscall.Signal(0)) succeeds
ProxyAlive(pid) == pid \in running

\* connect marking the agent dead when the proxy probe fails
ConnProbe_MarksDead(t) ==
  /\ At(t, "c_probe")
  /\ IF state.ProxyPid > 0 /\ ~ProxyAlive(state.ProxyPid)
       THEN /\ g' = [g EXCEPT ![t] = Connected(t, "proxy")]
            /\ mutex' = NoThread
            /\ dead' = TRUE
       ELSE /\ g' = [g EXCEPT ![t].pc = "c_dial"]
            /\ UNCHANGED << mutex, dead >>
  /\ UNCHANGED << client, reqHandlers, state, keepConn, dynamicTracing,
                  vmSocket, envVars, histVars, storageVars >>

\* connect dialing without probing the proxy
ConnProbe_Skipped(t) ==
  /\ At(t, "c_probe")
  /\ g' = [g EXCEPT ![t].pc = "c_dial"]
  /\ UNCHANGED << sessVars, envVars, histVars, storageVars >>

\* if k.state.ProxyPid > 0 { if syscall.Kill(pid, 0) != nil { return error } }
ConnProbe(t) ==
  /\ At(t, "c_probe")
  /\ IF state.ProxyPid > 0 /\ ~ProxyAlive(state.ProxyPid)
       THEN /\ g' = [g EXCEPT ![t] = Connected(t, "proxy")]
            /\ mutex' = NoThread
       ELSE /\ g' = [g EXCEPT ![t].pc = "c_dial"]
            /\ UNCHANGED mutex
  /\ UNCHANGED << dead, client, reqHandlers, state, keepConn, dynamicTracing,
                  vmSocket, envVars, histVars, storageVars >>

\* the handle a successful NewAgentClient returns: one that nothing refers
\* to (the lowest of them: which one makes no difference)
NewHandle ==
  LET used == open \cup {client} \cup { g[t].inflight : t \in Threads }
  IN  CHOOSE h \in HandleIds \ used : \A o \in HandleIds \ used : h <= o

\* goroutine t as it is when its connect() returns r after one call of
\* kataclient.NewAgentClient
Dialed(t, r) == [Connected(t, r) EXCEPT !.dials = @ + 1]

\* connect assigning k.dead = (err != nil): a successful dial revives
ConnDial_ClearsDead(t) ==
  /\ At(t, "c_dial")
  /\ \E ok \in BOOLEAN :
       IF ok
         THEN /\ open' = open \cup {NewHandle}
              /\ reqHandlers' = ReqTable
              /\ client' = NewHandle
              /\ g' = [g EXCEPT ![t] = Dialed(t, "ok")]
              /\ dead' = FALSE
         ELSE /\ dead' = TRUE
              /\ g' = [g EXCEPT ![t] = Dialed(t, "dialfail")]
              /\ UNCHANGED << open, reqHandlers, client >>
  /\ mutex' = NoThread
  /\ UNCHANGED << state, keepConn, dynamicTracing, vmSocket, running, crashed,
                  histVars, storageVars >>

\* client, err := kataclient.NewAgentClient(...)
\* if err != nil { k.dead = true; return err }
\* k.installReqFunc(client); k.client = client; return nil
ConnDial(t) ==
  /\ At(t, "c_dial")
  /\ \E ok \in BOOLEAN :
       IF ok
         THEN /\ open' = open \cup {NewHandle}
              /\ reqHandlers' = ReqTable
              /\ client' = NewHandle
              /\ g' = [g EXCEPT ![t] = Dialed(t, "ok")]
              /\ UNCHANGED dead
         ELSE /\ dead' = TRUE
              /\ g' = [g EXCEPT ![t] = Dialed(t, "dialfail")]
              /\ UNCHANGED << open, reqHandlers, client >>
  /\ mutex' = NoThread
  /\ UNCHANGED << state, keepConn, dynamicTracing, vmSocket, running, crashed,
                  histVars, storageVars >>

\* ---- disconnect ----

\* k.Lock()
DiscLock(t) ==
  /\ At(t, "d_lock")
  /\ mutex = NoThread
  /\ mutex' = t
  /\ g' = [g EXCEPT ![t].pc = "d_body"]
  /\ UNCHANGED << dead, client, reqHandlers, state, keepConn, dynamicTracing,
                  vmSocket, envVars, histVars, storageVars >>

\* outcomes of k.client.Close()
CloseOutcomes == { "ok", "canceled", "error" }

\* the handles open after Close() of handle h reported outcome o: a close
\* that reports an error may or may not have released the channel
OpenAfterClose(h, o) ==
  IF o = "error" THEN { open, open \ {h} } ELSE { open \ {h} }

\* goroutine t as it is when its disconnect() has returned r
Disconnected(t, r) ==
  [g[t] EXCEPT !.pc = AfterDisconnect(t),
               !.ret = IF g[t].op = "disconnect" THEN r ELSE @]

\* disconnect clearing the handle and leaving the handler table
DiscBody_KeepsHandlers(t) ==
  /\ At(t, "d_body")
  /\ IF client = NilClient
       THEN /\ g' = [g EXCEPT ![t] = Disconnected(t, "ok")]
            /\ UNCHANGED << client, open >>
       ELSE \E o \in CloseOutcomes :
              /\ open' \in OpenAfterClose(client, o)
              /\ IF o = "error"
                   THEN /\ g' = [g EXCEPT ![t] = Disconnected(t, "err")]
                        /\ UNCHANGED client
                   ELSE /\ client' = NilClient
                        /\ g' = [g EXCEPT ![t] = Disconnected(t, "ok")]
  /\ mutex' = NoThread
  /\ mdReturned' = (mdReturned \/ g[t].op = "markDead")
  /\ UNCHANGED << dead, reqHandlers, state, keepConn, dynamicTracing, vmSocket,
                  running, crashed, nops, storageVars >>

\* body of disconnect, under the lock
DiscBody(t) ==
  /\ At(t, "d_body")
  /\ IF client = NilClient
       THEN /\ g' = [g EXCEPT ![t] = Disconnected(t, "ok")]
            /\ UNCHANGED << client, reqHandlers, open >>
       ELSE \E o \in CloseOutcomes :
              /\ open' \in OpenAfterClose(client, o)
              /\ IF o = "error"
                   THEN /\ g' = [g EXCEPT ![t] = Disconnected(t, "err")]
                        /\ UNCHANGED << client, reqHandlers >>
                   ELSE /\ client' = NilClient
                        /\ reqHandlers' = NilMap
                        /\ g' = [g EXCEPT ![t] = Disconnected(t, "ok")]
  /\ mutex' = NoThread
  /\ mdReturned' = (mdReturned \/ g[t].op = "markDead")
  /\ UNCHANGED << dead, state, keepConn, dynamicTracing, vmSocket, running,
                  crashed, nops, storageVars >>

\* ---- markDead ----

\* k.dead = true; then k.disconnect()
MarkDeadSet(t) ==
  /\ At(t, "m_set")
  /\ dead' = TRUE
  /\ g' = [g EXCEPT ![t].pc = "d_lock"]
  /\ UNCHANGED << client, reqHandlers, state, keepConn, dynamicTracing,
                  vmSocket, mutex, envVars, histVars, storageVars >>

\* ---- sendReq ----

\* the deferred k.disconnect() of sendReq and of the stream reads:
\* if !k.keepConn { defer k.disconnect() }
Deferred(t, r) == IF keepConn THEN Returned(t, r) ELSE "d_lock"

\* sendReq calling whatever the table returns, without the test of the name
SendLookup_NoCheck(t) ==
  /\ At(t, "s_lookup")
  /\ g' = [g EXCEPT ![t] = [@ EXCEPT !.ctx = getReqContext(g[t].req),
                                      !.pc = "s_call"]]
  /\ UNCHANGED << sessVars, envVars, histVars, storageVars >>

\* handler := k.reqHandlers[msgName];
\* if msgName == "" || handler == nil { return nil, "Invalid request type" }
SendLookup(t) ==
  /\ At(t, "s_lookup")
  /\ g' = [g EXCEPT ![t] =
             IF g[t].req = "" \/ g[t].req \notin reqHandlers
               THEN [@ EXCEPT !.ret = "invalid", !.pc = Deferred(t, "invalid")]
               ELSE [@ EXCEPT !.ctx = getReqContext(g[t].req), !.pc = "s_call"]]
  /\ UNCHANGED << sessVars, envVars, histVars, storageVars >>

\* goroutine t as it starts the wire call m on k.client as it is now;
\* calling a method of a nil k.client panics
Calling(t, waitpc, m) ==
  IF client = NilClient
    THEN [g[t] EXCEPT !.ret = "panic", !.ctx = Background,
                      !.pc = Deferred(t, "panic")]
    ELSE [g[t] EXCEPT !.inflight = client, !.call = m, !.wire = @ + 1,
                      !.pc = waitpc]

\* handler(ctx, request): the handler calls k.client.<Method>
SendCall(t) ==
  /\ At(t, "s_call")
  /\ g' = [g EXCEPT ![t] = Calling(t, "s_wait", installReqFunc[g[t].req])]
  /\ UNCHANGED << sessVars, envVars, histVars, storageVars >>

\* a handle carries calls while it is open; the handle of the peer agent
\* is kept open by the peer
Live(h) == h \in open \/ h = PeerHandle

\* what a wire call on handle h can return: the guest's answer, an error
\* status of the guest or a timeout ("rpcerr"), the Unimplemented status;
\* on a closed channel only an error
CallOutcomes(h) ==
  IF Live(h) THEN { "ok", "rpcerr", "unimplemented" } ELSE { "rpcerr" }

\* sendReq calling the handler again when the call failed
SendWait_Retries(t) ==
  /\ At(t, "s_wait")
  /\ \E o \in CallOutcomes(g[t].inflight) :
       g' = [g EXCEPT ![t] = [@ EXCEPT !.ret = o, !.inflight = NilClient,
                                       !.call = "", !.ctx = Background,
                                       !.pc = IF o = "rpcerr" /\ g[t].wire < 2
                                                THEN "s_call"
                                                ELSE Deferred(t, o)]]
  /\ UNCHANGED << sessVars, envVars, histVars, storageVars >>

\* the wire call returns
SendWait(t) ==
  /\ At(t, "s_wait")
  /\ \E o \in CallOutcomes(g[t].inflight) :
       g' = [g EXCEPT ![t] = [@ EXCEPT !.ret = o, !.inflight = NilClient,
                                       !.call = "", !.ctx = Background,
                                       !.pc = Deferred(t, o)]]
  /\ UNCHANGED << sessVars, envVars, histVars, storageVars >>

\* ---- readProcessStdout / readProcessStderr ----

\* k.readProcessStream(c.id, processID, data, k.client.ReadStdout): the
\* method value dereferences k.client; then read(k.ctx, ...) runs on it
\* (readProcessStderr is the same code with k.client.ReadStderr)
ReadCall(t) ==
  /\ At(t, "r_call")
  /\ g' = [g EXCEPT ![t] = Calling(t, "r_wait", "ReadStdout")]
  /\ UNCHANGED << sessVars, envVars, histVars, storageVars >>

\* readProcessStream: the read returns data or an error
ReadWait(t) ==
  /\ At(t, "r_wait")
  /\ \E o \in CallOutcomes(g[t].inflight) \ {"unimplemented"} :
       g' = [g EXCEPT ![t] = [@ EXCEPT !.ret = o, !.inflight = NilClient,
                                       !.call = "", !.ctx = Background,
                                       !.pc = Deferred(t, o)]]
  /\ UNCHANGED << sessVars, envVars, histVars, storageVars >>

\* ---- proxy collaborator ----

\* k.proxy.stop(pid): <<error?, processes alive afterwards>>
ProxyStop(pid) ==
  { << "ok", running \ {pid} >>, << "err", running >> }

\* k.agentURL(): the URL of the VM socket, "" with an error for a socket
\* of an unknown type
agentURL == IF vmSocket = "socket" THEN "u1" ELSE ""

\* ---- reuseAgent, load, setProxy ----

\* k.installReqFunc(a.client), no lock taken
ReuseInstall(t) ==
  /\ At(t, "ra_install")
  /\ reqHandlers' = ReqTable
  /\ g' = [g EXCEPT ![t].pc = "ra_set"]
  /\ UNCHANGED << dead, client, state, keepConn, dynamicTracing, vmSocket,
                  mutex, envVars, histVars, storageVars >>

\* k.client = a.client; return nil, no lock taken
ReuseSet(t) ==
  /\ At(t, "ra_set")
  /\ client' = g[t].arg
  /\ g' = [g EXCEPT ![t] = [@ EXCEPT !.ret = "ok", !.pc = "done"]]
  /\ UNCHANGED << dead, reqHandlers, state, keepConn, dynamicTracing, vmSocket,
                  mutex, envVars, histVars, storageVars >>

\* load: k.state.ProxyPid = s.ProxyPid; k.state.URL = s.URL
Load(pid, url) ==
  /\ Running
  /\ nops < MaxOps
  /\ \A u \in Threads : ~InSandboxOp(u)
  /\ nops' = nops + 1
  /\ state' = [ProxyPid |-> pid, URL |-> url]
  /\ UNCHANGED << dead, client, reqHandlers, keepConn, dynamicTracing,
                  vmSocket, mutex, envVars, g, mdReturned, storageVars >>

\* setProxy stops the recorded proxy:
\* k.proxy != nil && k.state.URL != "" && k.state.URL != url
SetProxyStops(url) ==
  LET u == IF url = "" THEN agentURL ELSE url
  IN  state.URL # "" /\ state.URL # u

\* the state and the live processes after setProxy(sandbox, proxy, pid, url)
\* returned nil
SetProxyEffect(pid, url) ==
  LET u == IF url = "" THEN agentURL ELSE url
  IN  { << [ProxyPid |-> pid, URL |-> u], o[2] >> :
          o \in IF SetProxyStops(url) THEN ProxyStop(state.ProxyPid)
                                      ELSE { << "ok", running >> } }

\* setProxy fails when url is empty and agentURL() fails
SetProxyFails(url) == url = "" /\ vmSocket # "socket"

\* setProxy called on the agent
SetProxy(pid, url) ==
  /\ Running
  /\ nops < MaxOps
  /\ \A u \in Threads : ~InSandboxOp(u)
  /\ nops' = nops + 1
  /\ IF SetProxyFails(url)
       THEN UNCHANGED << state, running >>
       ELSE \E e \in SetProxyEffect(pid, url) :
              /\ state' = e[1]
              /\ running' = e[2]
  /\ UNCHANGED << dead, client, reqHandlers, keepConn, dynamicTracing,
                  vmSocket, mutex, open, crashed, g, mdReturned, storageVars >>

\* ---- startSandbox / stopSandbox ----

\* pid and URL a started proxy reports
StartPids == { -1, 2 }
StartURLs == { "", "u2" }

\* startProxy starting a proxy again whenever the console is not watched
StartProxyPath_AlwaysStarts(watched) ==
  CASE watched -> "watched"
    [] ~watched /\ state.URL = "" /\ vmSocket # "socket" -> "err"
    [] OTHER -> "start"

\* startProxy, up to the call of getSandboxConsole: "watched" (the proxy
\* watches the console: return nil), "recorded" (a URL is recorded and the
\* connection is not kept: return nil), "err" (no URL is recorded and
\* agentURL fails), "start"
StartProxyPath(watched) ==
  CASE watched -> "watched"
    [] ~watched /\ state.URL # "" /\ keepConn -> "start"
    [] ~watched /\ state.URL # "" /\ ~keepConn -> "recorded"
    [] ~watched /\ state.URL = "" /\ vmSocket # "socket" -> "err"
    [] OTHER -> "start"

\* the agentURL of the proxyParams: the recorded URL, or else k.agentURL()
ProxyAgentURL == IF state.URL # "" THEN state.URL ELSE agentURL

\* startProxy(sandbox), the first step of startSandbox, for a proxy that
\* watches the console or not, a console that is found or not and a proxy
\* that starts or not; the locals of startProxy are kept in loc
StartProxy(t) ==
  /\ At(t, "ss_proxy")
  /\ \E watched \in BOOLEAN, console \in {"ok", "err"}, started \in {"ok", "err"} :
       LET path == StartProxyPath(watched)
           fails == path = "err" \/ (path = "start" /\ "err" \in {console, started})
       IN  CASE path \in {"watched", "recorded"} ->
                  /\ g' = [g EXCEPT ![t] = [@ EXCEPT !.loc.proxyPath = path,
                                                     !.pc = "ss_dns"]]
                  /\ UNCHANGED << state, running >>
             [] fails ->
                  /\ g' = [g EXCEPT ![t] = [@ EXCEPT !.loc.proxyPath = "err",
                                                     !.ret = "proxyerr",
                                                     !.pc = "done"]]
                  /\ UNCHANGED << state, running >>
             [] OTHER ->
                  \E pid \in StartPids, uri \in StartURLs :
                    LET started_ == [g[t] EXCEPT !.loc.proxyPath = "start",
                                                !.loc.agentURL = ProxyAgentURL,
                                                !.loc.pid = pid,
                                                !.loc.uri = uri]
                    IN  IF SetProxyFails(uri)
                          THEN \* setProxy failed: the deferred k.proxy.stop(pid)
                               /\ running' = running \ {pid}
                               /\ g' = [g EXCEPT ![t] =
                                          [started_ EXCEPT !.loc.stopped = Ptr(pid),
                                                           !.ret = "proxyerr",
                                                           !.pc = "done"]]
                               /\ UNCHANGED state
                          ELSE \E e \in SetProxyEffect(pid, uri) :
                                 /\ state' = e[1]
                                 /\ running' = (e[2] \cup {pid}) \ {-1}
                                 /\ g' = [g EXCEPT ![t] =
                                            [started_ EXCEPT
                                               !.loc.stopped =
                                                  IF SetProxyStops(uri)
                                                    THEN Ptr(state.ProxyPid)
                                                    ELSE Nil,
                                               !.pc = "ss_dns"]]
  /\ UNCHANGED << dead, client, reqHandlers, keepConn, dynamicTracing,
                  vmSocket, mutex, open, crashed, histVars, storageVars >>

\* startSandbox cutting a hostname of maxHostnameLen bytes or more
Truncated_OneShort(hostname) ==
  IF Len(hostname) >= maxHostnameLen
    THEN SubSeq(hostname, 1, maxHostnameLen - 1)
    ELSE hostname

\* if len(hostname) > maxHostnameLen { hostname = hostname[:maxHostnameLen] }
Truncated(hostname) ==
  IF Len(hostname) > maxHostnameLen
    THEN SubSeq(hostname, 1, maxHostnameLen)
    ELSE hostname

\* hostname := sandbox.config.Hostname, cut to maxHostnameLen;
\* dns, err := k.getDNS(sandbox); then k.check()
SandboxDNS(t) ==
  /\ At(t, "ss_dns")
  /\ \E ok \in BOOLEAN :
       g' = [g EXCEPT ![t] =
               IF ok THEN [@ EXCEPT !.loc.reqHostname = Truncated(g[t].loc.hostname),
                                    !.req = "grpc.CheckRequest",
                                    !.wire = 0, !.dials = 0, !.pc = "c_dead"]
                     ELSE [@ EXCEPT !.loc.reqHostname = Truncated(g[t].loc.hostname),
                                    !.ret = "dnserr", !.pc = "ss_fail"]]
  /\ UNCHANGED << sessVars, envVars, histVars, storageVars >>

\* n copies of x
RECURSIVE Repeat(_, _)
Repeat(x, n) == IF n = 0 THEN << >> ELSE << x >> \o Repeat(x, n - 1)

\* startSandbox updating the routes before the interfaces
SandboxRequests_RoutesFirst(nifaces, routes, neighs) ==
  (IF routes THEN << "grpc.UpdateRoutesRequest" >> ELSE << >>)
    \o Repeat("grpc.UpdateInterfaceRequest", nifaces)
    \o (IF neighs THEN << "grpc.AddARPNeighborsRequest" >> ELSE << >>)
    \o << "grpc.CreateSandboxRequest" >>
    \o (IF dynamicTracing THEN << "grpc.StartTracingRequest" >> ELSE << >>)

\* the requests startSandbox sends after check(): updateInterfaces,
\* updateRoutes, addARPNeighbors, CreateSandbox, StartTracing
SandboxRequests(nifaces, routes, neighs) ==
  Repeat("grpc.UpdateInterfaceRequest", nifaces)
    \o (IF routes THEN << "grpc.UpdateRoutesRequest" >> ELSE << >>)
    \o (IF neighs THEN << "grpc.AddARPNeighborsRequest" >> ELSE << >>)
    \o << "grpc.CreateSandboxRequest" >>
    \o (IF dynamicTracing THEN << "grpc.StartTracingRequest" >> ELSE << >>)

\* fmt.Sprintf("msize=%d", n) and fmt.Sprintf("size=%d", n)
MsizeOption(n) == "msize=" \o ToString(n)
SizeOption(n) == "size=" \o ToString(n)

\* setupStorages(sandbox), given the package-level option lists: the storages
\* it returns and the lists as it leaves them
setupStorages(sb, options9p, optionsVirtioFS) ==
  LET dax == /\ sb.fsSharing /\ sb.SharedFS = "virtio-fs"
             /\ sb.VirtioFSCache # "none"
             /\ sb.VirtioFSCacheSize # 0
      virtioFS == IF dax THEN Append(optionsVirtioFS, "dax")
                         ELSE optionsVirtioFS
      p9 == IF sb.fsSharing /\ sb.SharedFS # "virtio-fs"
              THEN Append(options9p, MsizeOption(sb.Msize9p))
              ELSE options9p
      shared ==
        CASE ~sb.fsSharing -> << >>
          [] sb.fsSharing /\ sb.SharedFS = "virtio-fs" ->
               << [Driver |-> "virtio-fs", Source |-> "kataShared",
                   MountPoint |-> "kataGuestSharedDir", Fstype |-> "virtiofs",
                   Options |-> virtioFS] >>
          [] OTHER ->
               << [Driver |-> "9p", Source |-> "kataShared",
                   MountPoint |-> "kataGuestSharedDir", Fstype |-> "9p",
                   Options |-> p9] >>
      shm ==
        IF sb.shmSize > 0
          THEN << [Driver |-> "ephemeral", Source |-> "shm",
                   MountPoint |-> "kataGuestSandboxDir/shm", Fstype |-> "tmpfs",
                   Options |-> << "noexec", "nosuid", "nodev", "mode=1777",
                                  SizeOption(sb.shmSize) >>] >>
          ELSE << >>
  IN  [ storages |-> shared \o shm,
        sharedDir9pOptions |-> p9,
        sharedDirVirtioFSOptions |-> virtioFS ]

\* startSandbox is about to build its CreateSandboxRequest
BuildsRequest(next) ==
  /\ next.op = "startSandbox"
  /\ next.pc = "c_dead"
  /\ next.req = "grpc.CreateSandboxRequest"

\* storages := setupStorages(sandbox), in the step of startSandbox that goes
\* on to the CreateSandboxRequest: the goroutine with its storages
WithStorages(next) ==
  IF BuildsRequest(next)
    THEN [next EXCEPT !.loc.storages =
            setupStorages(sandbox, sharedDir9pOptions,
                          sharedDirVirtioFSOptions).storages]
    ELSE next

\* and the package-level lists as that step leaves them
SetupOptions(next) ==
  LET r == setupStorages(sandbox, sharedDir9pOptions, sharedDirVirtioFSOptions)
  IN  IF BuildsRequest(next)
        THEN /\ sharedDir9pOptions' = r.sharedDir9pOptions
             /\ sharedDirVirtioFSOptions' = r.sharedDirVirtioFSOptions
        ELSE UNCHANGED << sharedDir9pOptions, sharedDirVirtioFSOptions >>

\* generateVCNetworkStructures(sandbox.networkNS)
SandboxNet(t) ==
  /\ At(t, "ss_net")
  /\ \/ /\ g' = [g EXCEPT ![t] = [@ EXCEPT !.ret = "neterr", !.pc = "ss_fail"]]
        /\ UNCHANGED << sharedDir9pOptions, sharedDirVirtioFSOptions >>
     \/ \E n \in 0..MaxIfaces, routes \in BOOLEAN, neighs \in BOOLEAN :
          LET rs == SandboxRequests(n, routes, neighs)
              next == [g[t] EXCEPT !.req = Head(rs), !.todo = Tail(rs),
                                   !.wire = 0, !.dials = 0, !.pc = "c_dead"]
          IN  /\ g' = [g EXCEPT ![t] = WithStorages(next)]
              /\ SetupOptions(next)
  /\ UNCHANGED << sessVars, envVars, histVars, sandbox >>

\* the deferred function of startSandbox:
\* if err != nil { k.proxy.stop(k.state.ProxyPid) }
SandboxFail(t) ==
  /\ At(t, "ss_fail")
  /\ \E o \in ProxyStop(state.ProxyPid) : running' = o[2]
  /\ g' = [g EXCEPT ![t].pc = "done"]
  /\ UNCHANGED << sessVars, open, crashed, histVars, storageVars >>

\* stopSandbox clearing the recorded proxy whether or not it was stopped
StopProxy_ClearsAlways(t) ==
  /\ At(t, "st_stop")
  /\ \E o \in ProxyStop(state.ProxyPid) :
       /\ running' = o[2]
       /\ state' = [ProxyPid |-> -1, URL |-> ""]
       /\ g' = [g EXCEPT ![t] = [@ EXCEPT !.ret = IF o[1] = "ok" THEN @
                                                 ELSE "stoperr",
                                          !.pc = "done"]]
  /\ UNCHANGED << dead, client, reqHandlers, keepConn, dynamicTracing,
                  vmSocket, mutex, open, crashed, histVars, storageVars >>

\* stopSandbox after its requests: k.proxy.stop(k.state.ProxyPid), then
\* k.state.ProxyPid = -1; k.state.URL = ""
StopProxy(t) ==
  /\ At(t, "st_stop")
  /\ \E o \in ProxyStop(state.ProxyPid) :
       /\ running' = o[2]
       /\ IF o[1] = "ok"
            THEN /\ state' = [ProxyPid |-> -1, URL |-> ""]
                 /\ g' = [g EXCEPT ![t].pc = "done"]
            ELSE /\ g' = [g EXCEPT ![t] = [@ EXCEPT !.ret = "stoperr",
                                                    !.pc = "done"]]
                 /\ UNCHANGED state
  /\ UNCHANGED << dead, client, reqHandlers, keepConn, dynamicTracing,
                  vmSocket, mutex, open, crashed, histVars, storageVars >>

\* every caller of sendReq taking the Unimplemented status as success
Tolerated_AnyRequest(t) ==
  g[t].ret \in {"ok", "unimplemented"}

\* the caller of sendReq takes the result as success: err == nil, or the
\* Unimplemented status answered to AddARPNeighbors
Tolerated(t) ==
  \/ g[t].ret = "ok"
  \/ /\ g[t].ret = "unimplemented"
     /\ g[t].req = "grpc.AddARPNeighborsRequest"
     /\ g[t].op = "startSandbox"

\* startSandbox sending its next request after a request that failed
StartSandboxNext_GoesOn(t) ==
  CASE g[t].req = "grpc.CheckRequest" /\ Tolerated(t) ->
         [g[t] EXCEPT !.pc = "ss_net"]
    [] g[t].req = "grpc.CheckRequest" /\ ~Tolerated(t) ->
         [g[t] EXCEPT !.pc = "ss_fail"]
    [] g[t].req # "grpc.CheckRequest" /\ g[t].todo = << >> ->
         IF Tolerated(t) THEN [g[t] EXCEPT !.ret = "ok", !.pc = "done"]
                         ELSE [g[t] EXCEPT !.pc = "ss_fail"]
    [] OTHER ->
         [g[t] EXCEPT !.req = Head(g[t].todo), !.todo = Tail(g[t].todo),
                      !.wire = 0, !.dials = 0, !.pc = "c_dead"]

\* goroutine t of startSandbox as it goes on after a request
StartSandboxNext(t) ==
  CASE ~Tolerated(t) -> [g[t] EXCEPT !.pc = "ss_fail"]
    [] Tolerated(t) /\ g[t].req = "grpc.CheckRequest" ->
         [g[t] EXCEPT !.pc = "ss_net"]
    [] Tolerated(t) /\ g[t].req # "grpc.CheckRequest" /\ g[t].todo = << >> ->
         [g[t] EXCEPT !.ret = "ok", !.pc = "done"]
    [] OTHER ->
         [g[t] EXCEPT !.req = Head(g[t].todo), !.todo = Tail(g[t].todo),
                      !.wire = 0, !.dials = 0, !.pc = "c_dead"]

\* goroutine t of stopSandbox as it goes on after a request
StopSandboxNext(t) ==
  CASE g[t].ret # "ok" -> [g[t] EXCEPT !.pc = "done"]
    [] g[t].ret = "ok" /\ g[t].req = "grpc.DestroySandboxRequest"
                       /\ dynamicTracing ->
         [g[t] EXCEPT !.req = "grpc.StopTracingRequest",
                      !.wire = 0, !.dials = 0, !.pc = "c_dead"]
    [] OTHER -> [g[t] EXCEPT !.pc = "st_stop"]

\* goroutine t of createContainer as it goes on after its request:
\* if _, err = k.sendReq(req); err != nil { return nil, err }
CreateContainerNext(t) ==
  IF g[t].ret = "ok" THEN [g[t] EXCEPT !.loc.created = TRUE, !.pc = "cc_console"]
                     ELSE [g[t] EXCEPT !.loc.err = g[t].ret, !.pc = "cc_defer"]

\* the smaller of two numbers
Min(a, b) == IF a < b THEN a ELSE b

\* copyFile sending the whole of what is left in one request
CopyChunk_Whole(t) ==
  LET l == g[t].loc
  IN  [g[t] EXCEPT
         !.loc.calls = Append(@, [Data |-> Ptr([From |-> l.b.From,
                                                Len |-> l.b.Len]),
                                  Offset |-> l.offset,
                                  FileSize |-> l.fileSize]),
         !.loc.b = [From |-> l.b.From + l.b.Len, Len |-> 0],
         !.req = "grpc.CopyFileRequest",
         !.wire = 0, !.dials = 0, !.pc = "c_dead"]

\* one turn of the loop of copyFile, up to its sendReq:
\* bytesToCopy := min(len(b), grpcMaxDataSize); cpReq.Data = b[:bytesToCopy];
\* cpReq.Offset = offset; k.sendReq(cpReq); b is cut here to what follows
\* the data
CopyChunk(t) ==
  LET l == g[t].loc
      bytesToCopy == Min(l.b.Len, grpcMaxDataSize)
  IN  [g[t] EXCEPT
         !.loc.calls = Append(@, [Data |-> Ptr([From |-> l.b.From,
                                                Len |-> bytesToCopy]),
                                  Offset |-> l.offset,
                                  FileSize |-> l.fileSize]),
         !.loc.b = [From |-> l.b.From + bytesToCopy,
                    Len |-> l.b.Len - bytesToCopy],
         !.req = "grpc.CopyFileRequest",
         !.wire = 0, !.dials = 0, !.pc = "c_dead"]

\* the data of the last request of goroutine t
LastData(t) == g[t].loc.calls[Len(g[t].loc.calls)].Data[1]

\* copyFile going on with the offset it had
CopyFileNext_KeepsOffset(t) ==
  CASE g[t].loc.fileSize = 0 -> [g[t] EXCEPT !.pc = "done"]
    [] g[t].loc.fileSize # 0 /\ g[t].ret # "ok" ->
         [g[t] EXCEPT !.ret = "Could not send CopyFile request", !.pc = "done"]
    [] OTHER ->
         [g[t] EXCEPT
            !.loc.remainingBytes = @ - LastData(t).Len,
            !.pc = "cf_loop"]

\* goroutine t of copyFile as it goes on after a request: the request of an
\* empty file is the only one; in the loop an error ends the copy, and
\* remainingBytes -= bytesToCopy; offset += grpcMaxDataSize otherwise
CopyFileNext(t) ==
  CASE g[t].loc.fileSize = 0 -> [g[t] EXCEPT !.pc = "done"]
    [] g[t].loc.fileSize # 0 /\ g[t].ret # "ok" ->
         [g[t] EXCEPT !.ret = "Could not send CopyFile request", !.pc = "done"]
    [] OTHER ->
         [g[t] EXCEPT
            !.loc.remainingBytes = @ - LastData(t).Len,
            !.loc.offset = @ + grpcMaxDataSize,
            !.pc = "cf_loop"]

\* sendReq returns to startSandbox, stopSandbox, createContainer or
\* copyFile, which goes on; a panic that no caller recovers ends the process
SendReturn(t) ==
  /\ At(t, "s_ret")
  /\ crashed' = (g[t].ret = "panic")
  /\ LET next == CASE g[t].ret = "panic" -> [g[t] EXCEPT !.pc = "done"]
                    [] g[t].ret # "panic" /\ g[t].op = "startSandbox" ->
                         StartSandboxNext(t)
                    [] g[t].ret # "panic" /\ g[t].op = "createContainer" ->
                         CreateContainerNext(t)
                    [] g[t].ret # "panic" /\ g[t].op = "copyFile" ->
                         CopyFileNext(t)
                    [] OTHER -> StopSandboxNext(t)
     IN  /\ g' = [g EXCEPT ![t] = WithStorages(next)]
         /\ SetupOptions(next)
  /\ UNCHANGED << sessVars, open, running, histVars, sandbox >>

\* ---- createContainer: the functions it applies ----

\* sequences of at most n elements of S
SeqsUpTo(S, n) == UNION { [1..k -> S] : k \in 0..n }

\* a source path is the sequence of its characters; destinations of mounts,
\* and the guest path (written short) that replaces the source of a
\* mount backed by a block volume:
\* filepath.Join(kataGuestSandboxStorageDir(), uuid + "-" + base(destination))
Destinations == { "/a", "/b" }
StoragePath(dest) ==
  IF dest = "/a" THEN << "/", "s", "/", "a" >> ELSE << "/", "s", "/", "b" >>

\* the value of index when the loop "for index, m = range ociMounts" over
\* the mounts ends for a volume mounted at mountPoint: the (0-based) place
\* of the first mount with that destination, where the loop breaks; the
\* last place when no mount has it; the value it had (index) when there is
\* no mount at all
RangeIndex(ociMounts, mountPoint, index) ==
  LET hits == { j \in 1..Len(ociMounts) :
                  ociMounts[j].Destination = mountPoint }
  IN  CASE hits # {} -> (CHOOSE j \in hits : \A h \in hits : j <= h) - 1
        [] hits = {} /\ Len(ociMounts) > 0 -> Len(ociMounts) - 1
        [] OTHER -> index

\* replaceOCIMountsForStorages from volume i on, with the mounts, the
\* volumes and index as the volumes before i left them
RECURSIVE ReplaceFrom(_, _, _, _)
ReplaceFrom(ociMounts, volumeStorages, i, index) ==
  IF i > Len(volumeStorages)
    THEN [mounts |-> ociMounts, volumeStorages |-> volumeStorages, err |-> ""]
    ELSE LET v == volumeStorages[i]
             ix == RangeIndex(ociMounts, v.MountPoint, index)
             hit == /\ Len(ociMounts) > 0
                    /\ ociMounts[ix + 1].Destination = v.MountPoint
             path == StoragePath(v.MountPoint)
         IN  IF hit
               THEN ReplaceFrom([ociMounts EXCEPT ![ix + 1].Source = path],
                                [volumeStorages EXCEPT ![i].MountPoint = path],
                                i + 1, ix)
               ELSE IF ix = Len(ociMounts)
                      THEN [mounts |-> ociMounts,
                            volumeStorages |-> volumeStorages,
                            err |-> "OCI mount not found for block volume"]
                      ELSE ReplaceFrom(ociMounts, volumeStorages, i + 1, ix)

\* replaceOCIMountsForStorages(spec, volumeStorages)
replaceOCIMountsForStorages(ociMounts, volumeStorages) ==
  ReplaceFrom(ociMounts, volumeStorages, 1, 0)

\* namespace entries of a specification
NsTypes == { "pid", "network", "cgroup", "mount", "ipc" }
NsPaths == { "", "/proc/1/ns" }
NsEntries == [Type : NsTypes, Path : NsPaths]

\* handlePidNamespace(grpcSpec, sandbox): the first pid entry decides the
\* sharing and is taken out of the list
handlePidNamespace(namespaces) ==
  LET pids == { i \in 1..Len(namespaces) : namespaces[i].Type = "pid" }
      pidIndex == IF pids = {} THEN 0
                  ELSE CHOOSE i \in pids : \A j \in pids : i <= j
  IN  [ sharedPidNs |-> pidIndex > 0 /\ namespaces[pidIndex].Path # "",
        namespaces |->
          IF pidIndex > 0
            THEN SubSeq(namespaces, 1, pidIndex - 1)
                   \o SubSeq(namespaces, pidIndex + 1, Len(namespaces))
            ELSE namespaces ]

\* constraintGRPCSpec keeping the paths of the namespaces
RECURSIVE constraintNamespaces_KeepsPaths(_)
constraintNamespaces_KeepsPaths(namespaces) ==
  IF namespaces = << >> THEN << >>
  ELSE LET ns == Head(namespaces)
           rest == constraintNamespaces_KeepsPaths(Tail(namespaces))
       IN  IF ns.Type \in {"cgroup", "network"} THEN rest ELSE << ns >> \o rest

\* the loop of constraintGRPCSpec over grpcSpec.Linux.Namespaces
RECURSIVE constraintNamespaces(_)
constraintNamespaces(namespaces) ==
  IF namespaces = << >> THEN << >>
  ELSE LET ns == Head(namespaces)
           rest == constraintNamespaces(Tail(namespaces))
       IN  IF ns.Type \in {"cgroup", "network"}
             THEN rest
             ELSE << [ns EXCEPT !.Path = ""] >> \o rest

\* strings.Split(s, sep) for a separator of one character
RECURSIVE Split(_, _)
Split(s, sep) ==
  IF s = << >> THEN << << >> >>
  ELSE LET rest == Split(Tail(s), sep)
       IN  IF Head(s) = sep
             THEN << << >> >> \o rest
             ELSE << << Head(s) >> \o Head(rest) >> \o Tail(rest)

\* the elements of a rooted path as filepath.Clean leaves them: "" and "."
\* are dropped, ".." drops the element before it and is dropped at the root
RECURSIVE CleanFrom(_, _)
CleanFrom(elems, kept) ==
  IF elems = << >> THEN kept
  ELSE LET e == Head(elems)
       IN  CASE e \in { << >>, << "." >> } -> CleanFrom(Tail(elems), kept)
             [] e = << ".", "." >> ->
                  CleanFrom(Tail(elems),
                            IF kept = << >> THEN kept
                            ELSE SubSeq(kept, 1, Len(kept) - 1))
             [] OTHER -> CleanFrom(Tail(elems), Append(kept, e))

\* the elements written one after the other, each after a "/"
RECURSIVE Rooted(_)
Rooted(elems) ==
  IF elems = << >> THEN << >>
  ELSE << "/" >> \o Head(elems) \o Rooted(Tail(elems))

\* filepath.Join("/", a, b): the elements that are not empty joined by "/",
\* then cleaned
JoinRoot(a, b) ==
  LET joined == << "/" >> \o (IF a = << >> THEN << >> ELSE << "/" >> \o a)
                          \o (IF b = << >> THEN << >> ELSE << "/" >> \o b)
      kept == CleanFrom(Split(joined, "/"), << >>)
  IN  IF kept = << >> THEN << "/" >> ELSE Rooted(kept)

\* characters of a cgroups path: a letter, the dot, and the two separators
NameChars == { "a", "." }
PathChars == NameChars \cup { ":", "/" }

\* vccgroups.IsSystemdCgroup(cgroupPath): the path has the form
\* slice:prefix:name, three names separated by colons
IsSystemdCgroup(cgroupPath) ==
  LET parts == Split(cgroupPath, ":")
  IN  /\ Len(parts) = 3
      /\ \A i \in 1..3 :
           /\ parts[i] # << >>
           /\ \A j \in 1..Len(parts[i]) : parts[i][j] \in NameChars

\* constraintGRPCSpec leaving the path of a systemd cgroup as it is
constraintCgroupsPath_Unchanged(cgroupsPath) == cgroupsPath

\* if vccgroups.IsSystemdCgroup(grpcSpec.Linux.CgroupsPath) {
\*   slice := strings.Split(grpcSpec.Linux.CgroupsPath, ":")
\*   grpcSpec.Linux.CgroupsPath = filepath.Join("/", slice[1], slice[2]) }
constraintCgroupsPath(cgroupsPath) ==
  IF IsSystemdCgroup(cgroupsPath)
    THEN LET slice == Split(cgroupsPath, ":") IN JoinRoot(slice[2], slice[3])
    ELSE cgroupsPath

\* grpcSpec.Linux.Resources.Devices = nil ... Network = nil;
\* if grpcSpec.Linux.Resources.CPU != nil { CPU.Cpus = ""; CPU.Mems = "" }
constraintResources(resources) ==
  [ resources EXCEPT
      !.Devices = "nil", !.Pids = "nil", !.BlockIO = "nil",
      !.HugepageLimits = "nil", !.Network = "nil",
      !.CPU = IF @ = Nil THEN Nil
              ELSE Ptr([@[1] EXCEPT !.Cpus = "", !.Mems = ""]) ]

\* devices of a specification; vfioPath = "/dev/vfio/" is the prefix of the
\* first two paths
DevPaths == { "/dev/vfio/1", "/dev/vfio/vfio", "/dev/null" }
HasVfioPrefix(path) == path \in { "/dev/vfio/1", "/dev/vfio/vfio" }
DevEntries == [Type : {"c", "b"}, Path : DevPaths]

\* the loop of constraintGRPCSpec over grpcSpec.Linux.Devices
\* the loop over grpcSpec.Linux.Devices leaving as soon as it has removed one
\* VFIO device
RECURSIVE constraintDevices_FirstOnly(_)
constraintDevices_FirstOnly(devices) ==
  IF devices = << >> THEN << >>
  ELSE LET dev == Head(devices)
       IN  IF dev.Type = "c" /\ HasVfioPrefix(dev.Path)
             THEN Tail(devices)
             ELSE << dev >> \o constraintDevices_FirstOnly(Tail(devices))

RECURSIVE constraintDevices(_)
constraintDevices(devices) ==
  IF devices = << >> THEN << >>
  ELSE LET dev == Head(devices)
           rest == constraintDevices(Tail(devices))
       IN  IF dev.Type = "c" /\ HasVfioPrefix(dev.Path)
             THEN rest
             ELSE << dev >> \o rest

\* constraintGRPCSpec(grpcSpec, passSeccomp) on all of grpcSpec but its
\* namespaces, for resources that are not nil
constraintGRPCSpec(grpcSpec, passSeccomp) ==
  [ Hooks |-> "nil",
    Seccomp |-> IF passSeccomp THEN grpcSpec.Seccomp ELSE "nil",
    SelinuxLabel |-> "",
    Resources |-> Ptr(constraintResources(grpcSpec.Resources[1])),
    CgroupsPath |-> constraintCgroupsPath(grpcSpec.CgroupsPath),
    Devices |-> constraintDevices(grpcSpec.Devices) ]

\* c.sandbox.devManager.GetDeviceByID(id) in a sandbox with these devices:
\* two block drives, with and without a PCI path, two drives of persistent
\* memory, with and without a format, a block device whose information is
\* no block drive, a vhost-user block device, a vfio device; any other id
\* has no device
DeviceIds == { "blk", "blknopci", "pmem", "pmemraw", "bad", "vhost", "vfio", "gone" }
BlockDrive(pmem, format, pciPath) ==
  [ Pmem |-> pmem, Format |-> format, PCIPath |-> pciPath,
    VirtPath |-> "/dev/vda", DevNo |-> "0.0.0001", SCSIAddr |-> "0:0",
    NvdimmID |-> "0" ]
GetDeviceByID(id) ==
  CASE id = "blk" ->
         Ptr([DeviceType |-> "block", Info |-> Ptr(BlockDrive(FALSE, "", "02/03"))])
    [] id = "blknopci" ->
         Ptr([DeviceType |-> "block", Info |-> Ptr(BlockDrive(FALSE, "", ""))])
    [] id = "pmem" ->
         Ptr([DeviceType |-> "block", Info |-> Ptr(BlockDrive(TRUE, "ext4", ""))])
    [] id = "pmemraw" ->
         Ptr([DeviceType |-> "block", Info |-> Ptr(BlockDrive(TRUE, "", ""))])
    [] id = "bad" -> Ptr([DeviceType |-> "block", Info |-> Nil])
    [] id = "vhost" ->
         Ptr([DeviceType |-> "vhost-user-blk", Info |-> Ptr([PCIPath |-> "04/05"])])
    [] id = "vfio" -> Ptr([DeviceType |-> "vfio", Info |-> Nil])
    [] OTHER -> Nil

\* the block device drivers of a configuration, and one it does not know
BlockDeviceDrivers ==
  { "virtio-mmio", "virtio-blk-ccw", "virtio-blk", "virtio-scsi", "nvdimm",
    "unknown" }

\* a device or a storage with its fields empty
NoDevice == [ContainerPath |-> "", Type |-> "", Id |-> "", VmPath |-> ""]

\* the device appendBlockDevice makes of the drive d: the switch on the
\* block device driver, which has no default
BlockDeviceOf(dev, d, driver) ==
  LET kataDevice == [NoDevice EXCEPT !.ContainerPath = dev.ContainerPath]
  IN  CASE driver = "virtio-mmio" ->
             [kataDevice EXCEPT !.Type = "mmioblk", !.Id = d.VirtPath,
                                !.VmPath = d.VirtPath]
        [] driver = "virtio-blk-ccw" ->
             [kataDevice EXCEPT !.Type = "blk-ccw", !.Id = d.DevNo]
        [] driver = "virtio-blk" ->
             [kataDevice EXCEPT !.Type = "blk", !.Id = d.PCIPath,
                                !.VmPath = d.VirtPath]
        [] driver = "virtio-scsi" ->
             [kataDevice EXCEPT !.Type = "scsi", !.Id = d.SCSIAddr]
        [] driver = "nvdimm" ->
             [kataDevice EXCEPT !.Type = "nvdimm", !.VmPath = "/dev/pmem0"]
        [] OTHER -> kataDevice

\* appendBlockDevice without the test of d.Pmem
appendBlockDevice_PmemToo(dev, driver) ==
  LET info == GetDeviceByID(dev.ID)[1].Info
  IN  IF info = Nil THEN Nil ELSE Ptr(BlockDeviceOf(dev, info[1], driver))

\* appendBlockDevice(dev, c): nil, or the device it returns
appendBlockDevice(dev, driver) ==
  LET info == GetDeviceByID(dev.ID)[1].Info
  IN  CASE info = Nil -> Nil
        [] info # Nil /\ info[1].Pmem -> Nil
        [] OTHER -> Ptr(BlockDeviceOf(dev, info[1], driver))

\* appendVhostUserBlkDevice(dev, c)
appendVhostUserBlkDevice(dev) ==
  LET info == GetDeviceByID(dev.ID)[1].Info
  IN  IF info = Nil THEN Nil
      ELSE Ptr([NoDevice EXCEPT !.ContainerPath = dev.ContainerPath,
                                !.Type = "blk", !.Id = info[1].PCIPath])

\* the loop of appendDevices from the device at place i on; kataDevice is
\* declared before the loop and keeps its value from one turn to the next;
\* a device that is not found ends the function, which returns nil
RECURSIVE AppendDevicesFrom(_, _, _, _, _)
AppendDevicesFrom(devices, i, driver, deviceList, kataDevice) ==
  IF i > Len(devices) THEN deviceList
  ELSE LET dev == devices[i]
           device == GetDeviceByID(dev.ID)
           kd == CASE device = Nil -> Nil
                   [] device # Nil /\ device[1].DeviceType = "block" ->
                        appendBlockDevice(dev, driver)
                   [] device # Nil /\ device[1].DeviceType = "vhost-user-blk" ->
                        appendVhostUserBlkDevice(dev)
                   [] OTHER -> kataDevice
       IN  CASE device = Nil -> << >>
             [] device # Nil /\ kd = Nil ->
                  AppendDevicesFrom(devices, i + 1, driver, deviceList, kd)
             [] OTHER ->
                  AppendDevicesFrom(devices, i + 1, driver,
                                    Append(deviceList, kd[1]), kd)

\* appendDevices(deviceList, c)
appendDevices(deviceList, devices, driver) ==
  AppendDevicesFrom(devices, 1, driver, deviceList, Nil)

\* handleDeviceBlockVolume(c, m, device): the storage, or the error
handleDeviceBlockVolume(m, driver) ==
  LET info == GetDeviceByID(m.BlockDeviceID)[1].Info
      blockDrive == info[1]
      vol == [Driver |-> "", Source |-> "", Fstype |-> "", Options |-> << >>,
              MountPoint |-> ""]
      set ==
        CASE blockDrive.Pmem ->
               Ptr([vol EXCEPT !.Driver = "nvdimm", !.Source = "/dev/pmem0",
                               !.Fstype = blockDrive.Format,
                               !.Options = << "dax" >>])
          [] ~blockDrive.Pmem /\ driver = "virtio-blk-ccw" ->
               Ptr([vol EXCEPT !.Driver = "blk-ccw", !.Source = blockDrive.DevNo])
          [] ~blockDrive.Pmem /\ driver = "virtio-blk" ->
               Ptr([vol EXCEPT !.Driver = "blk",
                               !.Source = IF blockDrive.PCIPath = ""
                                            THEN blockDrive.VirtPath
                                            ELSE blockDrive.PCIPath])
          [] ~blockDrive.Pmem /\ driver = "virtio-mmio" ->
               Ptr([vol EXCEPT !.Driver = "mmioblk", !.Source = blockDrive.VirtPath])
          [] ~blockDrive.Pmem /\ driver = "virtio-scsi" ->
               Ptr([vol EXCEPT !.Driver = "scsi", !.Source = blockDrive.SCSIAddr])
          [] OTHER -> Nil
  IN  CASE info = Nil -> [vol |-> Nil, err |-> "malformed block drive"]
        [] info # Nil /\ set = Nil ->
             [vol |-> Nil, err |-> "Unknown block device driver"]
        [] OTHER ->
             [ vol |-> Ptr([set[1] EXCEPT
                              !.MountPoint = m.Destination,
                              !.Fstype = IF @ = "" THEN m.Type ELSE @,
                              !.Options = IF Len(@) = 0 THEN m.Options ELSE @]),
               err |-> "" ]

\* handleVhostUserBlkVolume(c, m, device)
handleVhostUserBlkVolume(m) ==
  LET info == GetDeviceByID(m.BlockDeviceID)[1].Info
  IN  IF info = Nil
        THEN [vol |-> Nil, err |-> "malformed vhost-user blk drive"]
        ELSE [ vol |-> Ptr([ Driver |-> "blk", Source |-> info[1].PCIPath,
                             Fstype |-> "bind", Options |-> << "bind" >>,
                             MountPoint |-> m.Destination ]),
               err |-> "" ]

\* the loop of handleBlockVolumes from the mount at place i on: the
\* storages, the devices of the container, and the error
RECURSIVE BlockVolumesFrom(_, _, _, _, _)
BlockVolumesFrom(mounts, i, driver, volumeStorages, devices) ==
  IF i > Len(mounts)
    THEN [volumeStorages |-> volumeStorages, devices |-> devices, err |-> ""]
  ELSE LET m == mounts[i]
           devs == Append(devices, [ID |-> m.BlockDeviceID,
                                    ContainerPath |-> m.Destination])
           device == GetDeviceByID(m.BlockDeviceID)
           r == CASE device[1].DeviceType = "block" ->
                       handleDeviceBlockVolume(m, driver)
                  [] device[1].DeviceType = "vhost-user-blk" ->
                       handleVhostUserBlkVolume(m)
                  [] OTHER -> [vol |-> Nil, err |-> "skip"]
       IN  CASE device = Nil ->
                  [volumeStorages |-> << >>, devices |-> devs,
                   err |-> "Failed to find device by id"]
             [] device # Nil /\ r.err = "skip" ->
                  BlockVolumesFrom(mounts, i + 1, driver, volumeStorages, devs)
             [] device # Nil /\ r.err \notin {"", "skip"} ->
                  [volumeStorages |-> << >>, devices |-> devs, err |-> r.err]
             [] OTHER ->
                  BlockVolumesFrom(mounts, i + 1, driver,
                                   Append(volumeStorages, r.vol[1]), devs)

\* handleBlockVolumes passing over a mount whose device is not found
handleBlockVolumes_SkipsUnresolved(mounts, driver, devices) ==
  BlockVolumesFrom(SelectSeq(mounts,
                             LAMBDA m : GetDeviceByID(m.BlockDeviceID) # Nil),
                   1, driver, << >>, devices)

\* handleBlockVolumes(c)
handleBlockVolumes(mounts, driver, devices) ==
  BlockVolumesFrom(mounts, 1, driver, << >>, devices)

\* filepath.Base(path): the last element of the path, "." for the empty
\* path and "/" for a path of slashes only
RECURSIVE Base(_)
Base(path) ==
  CASE path = << >> -> << "." >>
    [] path = << "/" >> -> << "/" >>
    [] Len(path) > 1 /\ path[Len(path)] = "/" ->
         Base(SubSeq(path, 1, Len(path) - 1))
    [] OTHER -> LET elems == Split(path, "/") IN elems[Len(elems)]

\* filepath.Join(dir, elem) for a rooted dir and an elem that is not empty
JoinPath(dir, elem) ==
  LET kept == CleanFrom(Split(dir \o << "/" >> \o elem, "/"), << >>)
  IN  IF kept = << >> THEN << "/" >> ELSE Rooted(kept)

\* the directories of the guest, written short: ephemeralPath(),
\* filepath.Join(kataGuestSandboxDir(), shmDir), and filepath.Join(
\* kataGuestSharedDir(), sandboxID, rootfsSuffix, KataLocalDevType)
ephemeralPath == << "/", "e" >>
ShmPath == << "/", "s", "h", "m" >>
LocalPath == << "/", "l" >>

\* handleShm(mounts, sandbox)
handleShm(mounts, shmSize) ==
  [ idx \in 1..Len(mounts) |->
      LET mnt == mounts[idx]
      IN  CASE mnt.Destination # "/dev/shm" \/ mnt.Type = "ephemeral" -> mnt
            [] mnt.Destination = "/dev/shm" /\ mnt.Type # "ephemeral"
                 /\ shmSize > 0 ->
                 [mnt EXCEPT !.Type = "bind", !.Source = ShmPath]
            [] OTHER ->
                 [mnt EXCEPT !.Type = "tmpfs", !.Source = << "s", "h", "m" >>] ]

\* handleEphemeralStorage mounting the storage at the source as it was
\* given
EphemeralStorage_OldSource(mnt) ==
  [ Driver |-> "ephemeral", Source |-> "tmpfs", Fstype |-> "tmpfs",
    MountPoint |-> mnt.Source ]

\* epheStorage := &grpc.Storage{...} for the mount mnt as given
EphemeralStorage(mnt) ==
  [ Driver |-> "ephemeral", Source |-> "tmpfs", Fstype |-> "tmpfs",
    MountPoint |-> JoinPath(ephemeralPath, Base(mnt.Source)) ]

\* handleEphemeralStorage(mounts): the mounts as it leaves them and the
\* storages it returns
RECURSIVE handleEphemeralStorage(_)
handleEphemeralStorage(mounts) ==
  IF mounts = << >> THEN [mounts |-> << >>, storages |-> << >>]
  ELSE LET mnt == Head(mounts)
           rest == handleEphemeralStorage(Tail(mounts))
       IN  IF mnt.Type = "ephemeral"
             THEN [ mounts |->
                      << [mnt EXCEPT
                            !.Source = JoinPath(ephemeralPath, Base(mnt.Source)),
                            !.Type = "bind"] >> \o rest.mounts,
                    storages |-> << EphemeralStorage(mnt) >> \o rest.storages ]
             ELSE [ mounts |-> << mnt >> \o rest.mounts,
                    storages |-> rest.storages ]

\* handleLocalStorage(mounts, sandboxID, rootfsSuffix)
RECURSIVE handleLocalStorage(_)
handleLocalStorage(mounts) ==
  IF mounts = << >> THEN [mounts |-> << >>, storages |-> << >>]
  ELSE LET mnt == Head(mounts)
           rest == handleLocalStorage(Tail(mounts))
           source == JoinPath(LocalPath, Base(mnt.Source))
       IN  IF mnt.Type = "local"
             THEN [ mounts |-> << [mnt EXCEPT !.Source = source] >> \o rest.mounts,
                    storages |->
                      << [ Driver |-> "local", Source |-> "local",
                           Fstype |-> "local", MountPoint |-> source ] >>
                        \o rest.storages ]
             ELSE [ mounts |-> << mnt >> \o rest.mounts,
                    storages |-> rest.storages ]

\* environment of the container command
agentPidEnv == "KATA_AGENT_PIDNS"
EnvEntries == [Var : {agentPidEnv, "PATH"}, Value : {"true", "1", "false", "yes"}]

\* strconv.ParseBool(str)
ParseBool(str) ==
  CASE str \in {"1", "t", "T", "TRUE", "true", "True"} ->
         [val |-> TRUE, err |-> FALSE]
    [] str \in {"0", "f", "F", "FALSE", "false", "False"} ->
         [val |-> FALSE, err |-> FALSE]
    [] OTHER -> [val |-> FALSE, err |-> TRUE]

\* checkAgentPidNs from entry i on, agentPidNs as the entries before left it
RECURSIVE AgentPidNsFrom(_, _, _)
AgentPidNsFrom(envs, i, agentPidNs) ==
  IF i > Len(envs) THEN agentPidNs
  ELSE LET env == envs[i]
           b == ParseBool(env.Value)
       IN  AgentPidNsFrom(envs, i + 1,
                          IF env.Var = agentPidEnv /\ ~b.err THEN b.val
                                                              ELSE agentPidNs)

\* checkAgentPidNs(container)
checkAgentPidNs(envs) == AgentPidNsFrom(envs, 1, FALSE)

\* ---- copyFile ----

\* copyFile without its case for the empty file
CopyRead_NoSpecialCase(t, size) ==
  /\ At(t, "cf_read")
  /\ \E o \in {"ok", "Could not get file information", "Could not read file"} :
       g' = [g EXCEPT ![t] =
               IF o # "ok"
                 THEN [@ EXCEPT !.ret = o, !.pc = "done"]
                 ELSE [@ EXCEPT !.loc.fileSize = size,
                                !.loc.b = [From |-> 0, Len |-> size],
                                !.loc.remainingBytes = size,
                                !.loc.offset = 0,
                                !.pc = "cf_loop"]]
  /\ UNCHANGED << sessVars, envVars, histVars, storageVars >>

\* unix.Stat(src, &st); b, err := ioutil.ReadFile(src): a file of size
\* bytes is read, or one of the two fails; the request of an empty file has
\* no data
CopyRead(t, size) ==
  /\ At(t, "cf_read")
  /\ \E o \in {"ok", "Could not get file information", "Could not read file"} :
       g' = [g EXCEPT ![t] =
               CASE o # "ok" -> [@ EXCEPT !.ret = o, !.pc = "done"]
                 [] o = "ok" /\ size = 0 ->
                      [@ EXCEPT !.loc.calls = << [Data |-> Nil, Offset |-> 0,
                                                  FileSize |-> 0] >>,
                                !.req = "grpc.CopyFileRequest",
                                !.wire = 0, !.dials = 0, !.pc = "c_dead"]
                 [] OTHER ->
                      [@ EXCEPT !.loc.fileSize = size,
                                !.loc.b = [From |-> 0, Len |-> size],
                                !.loc.remainingBytes = size,
                                !.loc.offset = 0,
                                !.pc = "cf_loop"]]
  /\ UNCHANGED << sessVars, envVars, histVars, storageVars >>

\* for remainingBytes > 0 { ... }; return nil
CopyLoop(t) ==
  /\ At(t, "cf_loop")
  /\ g' = [g EXCEPT ![t] =
             IF g[t].loc.remainingBytes > 0
               THEN CopyChunk(t)
               ELSE [@ EXCEPT !.ret = "ok", !.pc = "done"]]
  /\ UNCHANGED << sessVars, envVars, histVars, storageVars >>

\* ---- createContainer ----

\* createContainer goes on to position p, or returns the error e of the
\* step outcome o: the deferred function runs next
CreateStep(t, o, e, p) ==
  IF o = "ok" THEN [g[t] EXCEPT !.pc = p]
              ELSE [g[t] EXCEPT !.loc.err = e, !.pc = "cc_defer"]

\* rootfs, err = k.buildContainerRootfs(sandbox, c, rootPathParent)
CreateRootfs(t) ==
  /\ At(t, "cc_rootfs")
  /\ \E o \in {"ok", "err"} :
       g' = [g EXCEPT ![t] = CreateStep(t, o, "buildContainerRootfs", "cc_mounts")]
  /\ UNCHANGED << sessVars, envVars, histVars, storageVars >>

\* c.GetPatchedOCISpec(), c.mountSharedDirMounts(...), then handleShm,
\* handleEphemeralStorage and handleLocalStorage on ociSpec.Mounts, and the
\* steps that change nothing here, replaceOCIMountSource and
\* removeIgnoredOCIMount (for no shared mount), then appendDevices
CreateMounts(t) ==
  /\ At(t, "cc_mounts")
  /\ \E o \in {"ok", "errorMissingOCISpec", "mountSharedDirMounts"} :
       g' = [g EXCEPT ![t] =
               IF o = "ok"
                 THEN LET shm == handleShm(g[t].loc.mounts, g[t].loc.shmSize)
                          ephe == handleEphemeralStorage(shm)
                          local == handleLocalStorage(ephe.mounts)
                      IN  [@ EXCEPT !.loc.mounts = local.mounts,
                                    !.loc.ctrDevices =
                                       appendDevices(<< >>, g[t].loc.devices,
                                                     g[t].loc.blockDeviceDriver),
                                    !.loc.epheStorages = ephe.storages,
                                    !.loc.localStorages = local.storages,
                                    !.pc = "cc_block"]
                 ELSE CreateStep(t, o, o, "cc_block")]
  /\ UNCHANGED << sessVars, envVars, histVars, storageVars >>

\* volumeStorages, err := k.handleBlockVolumes(c)
\* if err != nil { return nil, err }
CreateBlockVolumes(t) ==
  /\ At(t, "cc_block")
  /\ LET r == handleBlockVolumes(g[t].loc.blockMounts,
                                 g[t].loc.blockDeviceDriver, g[t].loc.devices)
     IN  g' = [g EXCEPT ![t] =
                 IF r.err = ""
                   THEN [@ EXCEPT !.loc.volumeStorages = r.volumeStorages,
                                  !.loc.devices = r.devices,
                                  !.pc = "cc_replace"]
                   ELSE [@ EXCEPT !.loc.devices = r.devices,
                                  !.loc.err = r.err, !.pc = "cc_defer"]]
  /\ UNCHANGED << sessVars, envVars, histVars, storageVars >>

\* if err := k.replaceOCIMountsForStorages(ociSpec, volumeStorages);
\* err != nil { return nil, err }
CreateReplaceMounts(t) ==
  /\ At(t, "cc_replace")
  /\ LET r == replaceOCIMountsForStorages(g[t].loc.mounts,
                                          g[t].loc.volumeStorages)
     IN  g' = [g EXCEPT ![t] =
                 IF r.err = ""
                   THEN [@ EXCEPT !.loc.mounts = r.mounts,
                                  !.loc.volumeStorages = r.volumeStorages,
                                  !.pc = "cc_grpc"]
                   ELSE [@ EXCEPT !.loc.mounts = r.mounts,
                                  !.loc.volumeStorages = r.volumeStorages,
                                  !.loc.err = r.err, !.pc = "cc_defer"]]
  /\ UNCHANGED << sessVars, envVars, histVars, storageVars >>

\* grpcSpec, err := grpc.OCItoGRPC(ociSpec)
CreateGRPC(t) ==
  /\ At(t, "cc_grpc")
  /\ \E o \in {"ok", "err"} :
       g' = [g EXCEPT ![t] =
               IF o = "ok"
                 THEN [@ EXCEPT !.loc.namespaces = g[t].loc.ociNamespaces,
                                !.loc.spec = g[t].loc.oci,
                                !.pc = "cc_pidns"]
                 ELSE CreateStep(t, o, "OCItoGRPC", "cc_pidns")]
  /\ UNCHANGED << sessVars, envVars, histVars, storageVars >>

\* createContainer deciding the sharing on the namespaces as the
\* constrainer leaves them
CreatePidNs_Constrained(t) ==
  /\ At(t, "cc_pidns")
  /\ LET r == handlePidNamespace(g[t].loc.namespaces)
         c == handlePidNamespace(constraintNamespaces(g[t].loc.namespaces))
     IN  g' = [g EXCEPT ![t] = [@ EXCEPT !.loc.sharedPidNs = c.sharedPidNs,
                                         !.loc.namespaces = r.namespaces,
                                         !.pc = "cc_agentpidns"]]
  /\ UNCHANGED << sessVars, envVars, histVars, storageVars >>

\* sharedPidNs := k.handlePidNamespace(grpcSpec, sandbox)
CreatePidNs(t) ==
  /\ At(t, "cc_pidns")
  /\ LET r == handlePidNamespace(g[t].loc.namespaces)
     IN  g' = [g EXCEPT ![t] = [@ EXCEPT !.loc.sharedPidNs = r.sharedPidNs,
                                         !.loc.namespaces = r.namespaces,
                                         !.pc = "cc_agentpidns"]]
  /\ UNCHANGED << sessVars, envVars, histVars, storageVars >>

\* createContainer sending what checkAgentPidNs returns
CreateAgentPidNs_NoGate(t) ==
  /\ At(t, "cc_agentpidns")
  /\ g' = [g EXCEPT ![t] =
             [@ EXCEPT !.loc.agentPidNs = checkAgentPidNs(g[t].loc.envs),
                       !.pc = "cc_constrain"]]
  /\ UNCHANGED << sessVars, envVars, histVars, storageVars >>

\* agentPidNs := k.checkAgentPidNs(c)
\* if agentPidNs { if !sandbox.config.EnableAgentPidNs { agentPidNs = false } }
CreateAgentPidNs(t) ==
  /\ At(t, "cc_agentpidns")
  /\ g' = [g EXCEPT ![t] =
             [@ EXCEPT !.loc.agentPidNs =
                          /\ checkAgentPidNs(g[t].loc.envs)
                          /\ g[t].loc.enableAgentPidNs,
                       !.pc = "cc_constrain"]]
  /\ UNCHANGED << sessVars, envVars, histVars, storageVars >>

\* k.constraintGRPCSpec(grpcSpec, passSeccomp), which panics on resources
\* that are nil after it has cleared the hooks, the seccomp profile and the
\* label; req := &grpc.CreateContainerRequest{...}; k.sendReq(req)
CreateConstrain(t) ==
  /\ At(t, "cc_constrain")
  /\ crashed' = (g[t].loc.spec.Resources = Nil)
  /\ g' = [g EXCEPT ![t] =
             IF g[t].loc.spec.Resources = Nil
               THEN [@ EXCEPT !.loc.spec.Hooks = "nil",
                              !.loc.spec.Seccomp =
                                 IF g[t].loc.passSeccomp THEN @ ELSE "nil",
                              !.loc.spec.SelinuxLabel = "",
                              !.ret = "panic", !.pc = "done"]
               ELSE [@ EXCEPT !.loc.spec =
                                 constraintGRPCSpec(@, g[t].loc.passSeccomp),
                              !.loc.namespaces =
                                 constraintNamespaces(g[t].loc.namespaces),
                              !.req = "grpc.CreateContainerRequest",
                              !.wire = 0, !.dials = 0, !.pc = "c_dead"]]
  /\ UNCHANGED << sessVars, open, running, histVars, storageVars >>

\* consoleURL, err = sandbox.hypervisor.getSandboxConsole(sandbox.id), for
\* the sandbox container over vsock without a debug console (ok otherwise)
CreateConsole(t) ==
  /\ At(t, "cc_console")
  /\ \E o \in {"ok", "err"} :
       g' = [g EXCEPT ![t] = CreateStep(t, o, "getSandboxConsole", "cc_shim")]
  /\ UNCHANGED << sessVars, envVars, histVars, storageVars >>

\* return prepareAndStartShim(...)
CreateShim(t) ==
  /\ At(t, "cc_shim")
  /\ \E o \in {"ok", "err"} :
       g' = [g EXCEPT ![t] = CreateStep(t, o, "prepareAndStartShim", "cc_defer")]
  /\ UNCHANGED << sessVars, envVars, histVars, storageVars >>

\* defer func() { if err != nil { k.rollbackFailingContainerCreation(c) } }()
CreateDeferred(t) ==
  /\ At(t, "cc_defer")
  /\ g' = [g EXCEPT ![t] =
             IF g[t].loc.err # "" THEN [@ EXCEPT !.pc = "cc_unmount"]
                                  ELSE [@ EXCEPT !.ret = "ok", !.pc = "done"]]
  /\ UNCHANGED << sessVars, envVars, histVars, storageVars >>

\* rollbackFailingContainerCreation giving up when the unmount fails
RollbackUnmount_GivesUp(t) ==
  /\ At(t, "cc_unmount")
  /\ \E failed \in BOOLEAN :
       g' = [g EXCEPT ![t] =
               [@ EXCEPT !.loc.log = Append(@, [call |-> "unmountHostMounts",
                                                failed |-> failed]),
                         !.ret = IF failed THEN g[t].loc.err ELSE @,
                         !.pc = IF failed THEN "done" ELSE "cc_unbind"]]
  /\ UNCHANGED << sessVars, envVars, histVars, storageVars >>

\* if err2 := c.unmountHostMounts(); err2 != nil { log }
RollbackUnmount(t) ==
  /\ At(t, "cc_unmount")
  /\ \E failed \in BOOLEAN :
       g' = [g EXCEPT ![t] =
               [@ EXCEPT !.loc.log = Append(@, [call |-> "unmountHostMounts",
                                                failed |-> failed]),
                         !.pc = "cc_unbind"]]
  /\ UNCHANGED << sessVars, envVars, histVars, storageVars >>

\* if err2 := bindUnmountContainerRootfs(...); err2 != nil { log }; then
\* createContainer returns err to its caller
RollbackUnbind(t) ==
  /\ At(t, "cc_unbind")
  /\ \E failed \in BOOLEAN :
       g' = [g EXCEPT ![t] =
               [@ EXCEPT !.loc.log = Append(@, [call |-> "bindUnmountContainerRootfs",
                                                failed |-> failed]),
                         !.ret = g[t].loc.err,
                         !.pc = "done"]]
  /\ UNCHANGED << sessVars, envVars, histVars, storageVars >>

\* ---- calls made on the agent ----

\* a goroutine starts operation o; goroutines are interchangeable, and a call
\* is run by the first free one
Begin(t, o, k, a, entry) ==
  /\ Running
  /\ Free(t)
  /\ \A u \in Threads : u < t => ~Free(u)
  /\ nops < MaxOps
  /\ \A u \in Threads \ {t} :
       IF o \in SandboxOps THEN Free(u) ELSE ~InSandboxOp(u)
  /\ nops' = nops + 1
  /\ g' = [g EXCEPT ![t] = [Idle EXCEPT !.op = o, !.req = k, !.arg = a,
                                        !.pc = entry]]
  /\ UNCHANGED << sessVars, envVars, mdReturned, storageVars >>

CallConnect(t) == Begin(t, "connect", "", NilClient, "c_dead")

CallDisconnect(t) == Begin(t, "disconnect", "", NilClient, "d_lock")

CallMarkDead(t) == Begin(t, "markDead", "", NilClient, "m_set")

CallSendReq(t, k) == Begin(t, "sendReq", k, NilClient, "c_dead")

CallReadStream(t) == Begin(t, "readStream", "", NilClient, "c_dead")

CallReuseAgent(t, h) == Begin(t, "reuseAgent", "", h, "ra_install")

CallStartSandbox(t) == Begin(t, "startSandbox", "", NilClient, "ss_proxy")

CallStopSandbox(t) ==
  Begin(t, "stopSandbox", "grpc.DestroySandboxRequest", NilClient, "c_dead")

\* the operation hands its result to its caller: the goroutine is free again
Return(t) ==
  /\ ~crashed
  /\ g[t].pc = "done"
  /\ g' = [g EXCEPT ![t] = Idle]
  /\ UNCHANGED << sessVars, envVars, histVars, storageVars >>

\* ---- environment ----

\* a proxy process dies
ProxyExit ==
  /\ Running
  /\ \E p \in running : running' = running \ {p}
  /\ UNCHANGED << sessVars, open, crashed, g, histVars, storageVars >>

\* steps of the connection manager
ConnStep(t) ==
  \/ ConnCheckDead(t)
  \/ ConnQuickPass(t)
  \/ ConnLock(t)
  \/ ConnProbe(t)
  \/ ConnDial(t)

Next ==
  \/ \E t \in Threads : CallConnect(t)
  \/ \E t \in Threads : CallDisconnect(t)
  \/ \E t \in Threads : CallMarkDead(t)
  \/ \E t \in Threads, k \in SendKinds : CallSendReq(t, k)
  \/ \E t \in Threads : CallReadStream(t)
  \/ \E t \in Threads, h \in {NilClient, PeerHandle} : CallReuseAgent(t, h)
  \/ \E t \in Threads : CallStartSandbox(t)
  \/ \E t \in Threads : CallStopSandbox(t)
  \/ \E s \in LoadStates : Load(s.ProxyPid, s.URL)
  \/ \E s \in SetProxyArgs : SetProxy(s.ProxyPid, s.URL)
  \/ \E t \in Threads : ConnStep(t)
  \/ \E t \in Threads : DiscLock(t)
  \/ \E t \in Threads : DiscBody(t)
  \/ \E t \in Threads : MarkDeadSet(t)
  \/ \E t \in Threads : SendLookup(t)
  \/ \E t \in Threads : SendCall(t)
  \/ \E t \in Threads : SendWait(t)
  \/ \E t \in Threads : SendReturn(t)
  \/ \E t \in Threads : ReadCall(t)
  \/ \E t \in Threads : ReadWait(t)
  \/ \E t \in Threads : ReuseInstall(t)
  \/ \E t \in Threads : ReuseSet(t)
  \/ \E t \in Threads : StartProxy(t)
  \/ \E t \in Threads : SandboxDNS(t)
  \/ \E t \in Threads : SandboxNet(t)
  \/ \E t \in Threads : SandboxFail(t)
  \/ \E t \in Threads : StopProxy(t)
  \/ \E t \in Threads : Return(t)
  \/ ProxyExit

Spec == Init /\ [][Next]_vars

\* ---- the connection manager without reuseAgent ----

\* as Init; k.dynamicTracing is read by startSandbox and stopSandbox only
InitConn ==
  /\ dead = FALSE
  /\ client = NilClient
  /\ reqHandlers = NilMap
  /\ state \in LoadStates
  /\ keepConn \in BOOLEAN
  /\ dynamicTracing = FALSE
  /\ vmSocket = "socket"
  /\ mutex = NoThread
  /\ open = {}
  /\ running = { p \in {state.ProxyPid} : p > 0 }
  /\ crashed = FALSE
  /\ InitOptions
  /\ sandbox = NoSharing
  /\ g = [t \in Threads |-> Idle]
  /\ nops = 0
  /\ mdReturned = FALSE

NextConn ==
  \/ \E t \in Threads : CallConnect(t)
  \/ \E t \in Threads : CallDisconnect(t)
  \/ \E t \in Threads : CallMarkDead(t)
  \/ \E t \in Threads, k \in SendKinds : CallSendReq(t, k)
  \/ \E t \in Threads : CallReadStream(t)
  \/ \E t \in Threads : ConnStep(t)
  \/ \E t \in Threads : DiscLock(t)
  \/ \E t \in Threads : DiscBody(t)
  \/ \E t \in Threads : MarkDeadSet(t)
  \/ \E t \in Threads : SendLookup(t)
  \/ \E t \in Threads : SendCall(t)
  \/ \E t \in Threads : SendWait(t)
  \/ \E t \in Threads : SendReturn(t)
  \/ \E t \in Threads : ReadCall(t)
  \/ \E t \in Threads : ReadWait(t)
  \/ \E t \in Threads : Return(t)
  \/ ProxyExit

SpecConn == InitConn /\ [][NextConn]_vars

\* ---- every goroutine has just called connect() ----

InitConnect ==
  /\ dead = FALSE
  /\ client = NilClient
  /\ reqHandlers = NilMap
  /\ state \in LoadStates
  /\ keepConn \in BOOLEAN
  /\ dynamicTracing = FALSE
  /\ vmSocket = "socket"
  /\ mutex = NoThread
  /\ open = {}
  /\ running = { p \in {state.ProxyPid} : p > 0 }
  /\ crashed = FALSE
  /\ InitOptions
  /\ sandbox = NoSharing
  /\ g = [t \in Threads |-> [Idle EXCEPT !.op = "connect", !.pc = "c_dead"]]
  /\ nops = NumThreads
  /\ mdReturned = FALSE

NextConnect ==
  \/ \E t \in Threads : ConnStep(t)
  \/ \E t \in Threads : Return(t)
  \/ ProxyExit

SpecConnect == InitConnect /\ [][NextConnect]_vars

\* ---- one goroutine has just called sendReq ----

\* message names of the requests sendReq is given: the registered ones, the
\* empty name of a message the protocol does not know, and the name of a
\* protocol message that is no request
ReqKinds == ReqTable \cup { "", "grpc.Interfaces" }

\* the agent as connect() leaves it when held is true, as init() leaves it
\* otherwise; the first goroutine is in sendReq(request)
InitSend ==
  /\ dead = FALSE
  /\ \E held \in BOOLEAN :
       /\ client = IF held THEN 1 ELSE NilClient
       /\ reqHandlers = IF held THEN ReqTable ELSE NilMap
       /\ open = IF held THEN {1} ELSE {}
  /\ state \in LoadStates
  /\ keepConn \in BOOLEAN
  /\ dynamicTracing = FALSE
  /\ vmSocket = "socket"
  /\ mutex = NoThread
  /\ running = { p \in {state.ProxyPid} : p > 0 }
  /\ crashed = FALSE
  /\ InitOptions
  /\ sandbox = NoSharing
  /\ \E k \in ReqKinds :
       g = [t \in Threads |->
              IF t = 1 THEN [Idle EXCEPT !.op = "sendReq", !.req = k,
                                         !.pc = "c_dead"]
                       ELSE Idle]
  /\ nops = MaxOps
  /\ mdReturned = FALSE

NextSend ==
  \/ \E t \in Threads : ConnStep(t)
  \/ \E t \in Threads : SendLookup(t)
  \/ \E t \in Threads : SendCall(t)
  \/ \E t \in Threads : SendWait(t)
  \/ \E t \in Threads : DiscLock(t)
  \/ \E t \in Threads : DiscBody(t)
  \/ \E t \in Threads : Return(t)
  \/ ProxyExit

SpecSend == InitSend /\ [][NextSend]_vars

\* ---- one goroutine has just called startSandbox or stopSandbox ----

\* the agent as connect() leaves it when held is true, as init() leaves it
\* otherwise, with the proxy state as restored from the store
InitSandbox ==
  /\ dead = FALSE
  /\ \E held \in BOOLEAN :
       /\ client = IF held THEN 1 ELSE NilClient
       /\ reqHandlers = IF held THEN ReqTable ELSE NilMap
       /\ open = IF held THEN {1} ELSE {}
  /\ state \in LoadStates
  /\ keepConn \in BOOLEAN
  /\ dynamicTracing \in BOOLEAN
  /\ vmSocket = "socket"
  /\ mutex = NoThread
  /\ running = { p \in {state.ProxyPid} : p > 0 }
  /\ crashed = FALSE
  /\ InitOptions
  /\ sandbox = NoSharing
  /\ \E start \in BOOLEAN :
       g = [t \in Threads |->
              CASE t = 1 /\ start ->
                     [Idle EXCEPT !.op = "startSandbox", !.pc = "ss_proxy"]
                [] t = 1 /\ ~start ->
                     [Idle EXCEPT !.op = "stopSandbox",
                                  !.req = "grpc.DestroySandboxRequest",
                                  !.pc = "c_dead"]
                [] OTHER -> Idle]
  /\ nops = MaxOps
  /\ mdReturned = FALSE

NextSandbox ==
  \/ \E t \in Threads : ConnStep(t)
  \/ \E t \in Threads : SendLookup(t)
  \/ \E t \in Threads : SendCall(t)
  \/ \E t \in Threads : SendWait(t)
  \/ \E t \in Threads : SendReturn(t)
  \/ \E t \in Threads : DiscLock(t)
  \/ \E t \in Threads : DiscBody(t)
  \/ \E t \in Threads : StartProxy(t)
  \/ \E t \in Threads : SandboxDNS(t)
  \/ \E t \in Threads : SandboxNet(t)
  \/ \E t \in Threads : SandboxFail(t)
  \/ \E t \in Threads : StopProxy(t)
  \/ \E t \in Threads : Return(t)
  \/ ProxyExit

SpecSandbox == InitSandbox /\ [][NextSandbox]_vars

\* ---- one goroutine has just called createContainer ----

\* the mount lists and the block volumes of a container
OCIMounts ==
  SeqsUpTo([Destination : Destinations, Source : { << "/", "h" >> },
            Type : {"bind"}], MaxMounts)
BlockMounts ==
  SeqsUpTo([Destination : Destinations, BlockDeviceID : {"blk"},
            Type : {"bind"}, Options : { << >> }], MaxVols)
    \cup { << [Destination |-> "/a", BlockDeviceID |-> "gone", Type |-> "bind",
               Options |-> << >>] >>,
           << [Destination |-> "/a", BlockDeviceID |-> "blk", Type |-> "bind",
               Options |-> << >>],
              [Destination |-> "/a", BlockDeviceID |-> "gone", Type |-> "bind",
               Options |-> << >>] >> }

\* the agent as connect() leaves it when held is true, as init() leaves it
\* otherwise, with createContainer called on a container of any mounts and
\* block volumes
InitCreate ==
  /\ dead = FALSE
  /\ \E held \in BOOLEAN :
       /\ client = IF held THEN 1 ELSE NilClient
       /\ reqHandlers = IF held THEN ReqTable ELSE NilMap
       /\ open = IF held THEN {1} ELSE {}
  /\ state \in LoadStates
  /\ keepConn \in BOOLEAN
  /\ dynamicTracing = FALSE
  /\ vmSocket = "socket"
  /\ mutex = NoThread
  /\ running = { p \in {state.ProxyPid} : p > 0 }
  /\ crashed = FALSE
  /\ InitOptions
  /\ sandbox = NoSharing
  /\ \E m \in OCIMounts, b \in BlockMounts, e \in BOOLEAN :
       g = [t \in Threads |->
              IF t = 1
                THEN [Idle EXCEPT
                        !.op = "createContainer", !.pc = "cc_rootfs",
                        !.loc = [NoLocals EXCEPT
                                   !.mounts = m, !.blockMounts = b,
                                   !.ociNamespaces =
                                      << [Type |-> "pid", Path |-> "/proc/1/ns"],
                                         [Type |-> "network", Path |-> ""] >>,
                                   !.envs = << [Var |-> agentPidEnv,
                                                Value |-> "true"] >>,
                                   !.enableAgentPidNs = e]]
                ELSE Idle]
  /\ nops = MaxOps
  /\ mdReturned = FALSE

NextCreate ==
  \/ \E t \in Threads : CreateRootfs(t)
  \/ \E t \in Threads : CreateMounts(t)
  \/ \E t \in Threads : CreateBlockVolumes(t)
  \/ \E t \in Threads : CreateReplaceMounts(t)
  \/ \E t \in Threads : CreateGRPC(t)
  \/ \E t \in Threads : CreatePidNs(t)
  \/ \E t \in Threads : CreateAgentPidNs(t)
  \/ \E t \in Threads : CreateConstrain(t)
  \/ \E t \in Threads : ConnStep(t)
  \/ \E t \in Threads : SendLookup(t)
  \/ \E t \in Threads : SendCall(t)
  \/ \E t \in Threads : SendWait(t)
  \/ \E t \in Threads : SendReturn(t)
  \/ \E t \in Threads : DiscLock(t)
  \/ \E t \in Threads : DiscBody(t)
  \/ \E t \in Threads : CreateConsole(t)
  \/ \E t \in Threads : CreateShim(t)
  \/ \E t \in Threads : CreateDeferred(t)
  \/ \E t \in Threads : RollbackUnmount(t)
  \/ \E t \in Threads : RollbackUnbind(t)
  \/ \E t \in Threads : Return(t)
  \/ ProxyExit

SpecCreate == InitCreate /\ [][NextCreate]_vars

\* ---- createContainer handles the namespaces of a container ----

\* createContainer with the namespaces of ociSpec copied into grpcSpec, for
\* any list of namespaces
InitNamespaces ==
  /\ dead = FALSE
  /\ client = NilClient
  /\ reqHandlers = NilMap
  /\ open = {}
  /\ state = [ProxyPid |-> 0, URL |-> ""]
  /\ keepConn = FALSE
  /\ dynamicTracing = FALSE
  /\ vmSocket = "socket"
  /\ mutex = NoThread
  /\ running = {}
  /\ crashed = FALSE
  /\ InitOptions
  /\ sandbox = NoSharing
  /\ \E n \in SeqsUpTo(NsEntries, MaxNs) :
       g = [t \in Threads |->
              IF t = 1
                THEN [Idle EXCEPT
                        !.op = "createContainer", !.pc = "cc_pidns",
                        !.loc = [NoLocals EXCEPT !.ociNamespaces = n,
                                                 !.namespaces = n]]
                ELSE Idle]
  /\ nops = MaxOps
  /\ mdReturned = FALSE

NextNamespaces ==
  \/ \E t \in Threads : CreatePidNs(t)
  \/ \E t \in Threads : CreateAgentPidNs(t)
  \/ \E t \in Threads : CreateConstrain(t)

SpecNamespaces == InitNamespaces /\ [][NextNamespaces]_vars

\* the same, up to the wire call of the CreateContainerRequest
NextRequest ==
  \/ \E t \in Threads : CreatePidNs(t)
  \/ \E t \in Threads : CreateAgentPidNs(t)
  \/ \E t \in Threads : CreateConstrain(t)
  \/ \E t \in Threads : ConnStep(t)
  \/ \E t \in Threads : SendLookup(t)
  \/ \E t \in Threads : SendCall(t)

SpecRequest == InitNamespaces /\ [][NextRequest]_vars

\* ---- createContainer reads the environment of the command ----

\* createContainer about to call checkAgentPidNs, for any environment of
\* the command and either setting of the sandbox
InitAgentPidNs ==
  /\ dead = FALSE
  /\ client = NilClient
  /\ reqHandlers = NilMap
  /\ open = {}
  /\ state = [ProxyPid |-> 0, URL |-> ""]
  /\ keepConn = FALSE
  /\ dynamicTracing = FALSE
  /\ vmSocket = "socket"
  /\ mutex = NoThread
  /\ running = {}
  /\ crashed = FALSE
  /\ InitOptions
  /\ sandbox = NoSharing
  /\ \E e \in SeqsUpTo(EnvEntries, MaxEnvs), enable \in BOOLEAN :
       g = [t \in Threads |->
              IF t = 1
                THEN [Idle EXCEPT
                        !.op = "createContainer", !.pc = "cc_agentpidns",
                        !.loc = [NoLocals EXCEPT !.envs = e,
                                                 !.enableAgentPidNs = enable]]
                ELSE Idle]
  /\ nops = MaxOps
  /\ mdReturned = FALSE

NextAgentPidNs ==
  \/ \E t \in Threads : CreateAgentPidNs(t)
  \/ \E t \in Threads : CreateConstrain(t)

SpecAgentPidNs == InitAgentPidNs /\ [][NextAgentPidNs]_vars

\* ---- createContainer constrains the specification ----

\* resources of a specification
CPUs ==
  [ Cpus : {"", "0-3"}, Mems : {"", "0"}, Shares : {0, 1024},
    Quota : {0, 5000}, Period : {0, 10000} ]
Resources ==
  [ Devices : {"nil", "set"}, Pids : {"nil", "set"}, BlockIO : {"nil", "set"},
    HugepageLimits : {"nil", "set"}, Network : {"nil", "set"},
    Memory : {"nil", "set"}, CPU : {Nil} \cup { Ptr(c) : c \in CPUs } ]

\* the specifications given to the constrainer: any resources, any cgroups
\* path, any devices, any hooks, seccomp profile and label
ConstrainInputs ==
  { [NoSpec EXCEPT !.Resources = r] :
      r \in {Nil} \cup { Ptr(x) : x \in Resources } }
  \cup { [NoSpec EXCEPT !.CgroupsPath = p] : p \in SeqsUpTo(PathChars, MaxPath) }
  \cup { [NoSpec EXCEPT !.Devices = d] : d \in SeqsUpTo(DevEntries, MaxDevs) }
  \cup { [NoSpec EXCEPT !.Hooks = h, !.Seccomp = c, !.SelinuxLabel = l] :
           h \in {"nil", "set"}, c \in {"nil", "set"}, l \in {"", "label"} }

\* the namespaces of the specifications given to the constrainer
ConstrainNamespaces ==
  { << >>,
    << [Type |-> "pid", Path |-> "/proc/1/ns"],
       [Type |-> "network", Path |-> ""],
       [Type |-> "mount", Path |-> "/proc/1/ns"] >> }

\* createContainer about to call constraintGRPCSpec on the copy of ociSpec
InitConstrain ==
  /\ dead = FALSE
  /\ client = NilClient
  /\ reqHandlers = NilMap
  /\ open = {}
  /\ state = [ProxyPid |-> 0, URL |-> ""]
  /\ keepConn = FALSE
  /\ dynamicTracing = FALSE
  /\ vmSocket = "socket"
  /\ mutex = NoThread
  /\ running = {}
  /\ crashed = FALSE
  /\ InitOptions
  /\ sandbox = NoSharing
  /\ \E i \in ConstrainInputs, n \in ConstrainNamespaces, pass \in BOOLEAN :
       g = [t \in Threads |->
              IF t = 1
                THEN [Idle EXCEPT
                        !.op = "createContainer", !.pc = "cc_constrain",
                        !.loc = [NoLocals EXCEPT !.oci = i, !.spec = i,
                                                 !.ociNamespaces = n,
                                                 !.namespaces = n,
                                                 !.passSeccomp = pass]]
                ELSE Idle]
  /\ nops = MaxOps
  /\ mdReturned = FALSE

NextConstrain == \E t \in Threads : CreateConstrain(t)

SpecConstrain == InitConstrain /\ [][NextConstrain]_vars

\* ---- startSandbox cuts the hostname ----

\* hostnames of up to MaxHostname bytes, each byte told from its neighbours
Hostnames ==
  { [i \in 1..n |-> (i + k) % 256] : n \in 0..MaxHostname, k \in {0, 97} }

\* startSandbox after startProxy, for a sandbox of any hostname
InitHostname ==
  /\ dead = FALSE
  /\ client = NilClient
  /\ reqHandlers = NilMap
  /\ open = {}
  /\ state = [ProxyPid |-> 0, URL |-> ""]
  /\ keepConn = FALSE
  /\ dynamicTracing = FALSE
  /\ vmSocket = "socket"
  /\ mutex = NoThread
  /\ running = {}
  /\ crashed = FALSE
  /\ InitOptions
  /\ sandbox = NoSharing
  /\ \E h \in Hostnames :
       g = [t \in Threads |->
              IF t = 1
                THEN [Idle EXCEPT !.op = "startSandbox", !.pc = "ss_dns",
                                  !.loc = [NoLocals EXCEPT !.hostname = h]]
                ELSE Idle]
  /\ nops = MaxOps
  /\ mdReturned = FALSE

NextHostname == \E t \in Threads : SandboxDNS(t)

SpecHostname == InitHostname /\ [][NextHostname]_vars

\* ---- one goroutine has just called copyFile ----

\* sizes of files: empty, one byte, and around each multiple of the
\* largest data of a request
FileSizes ==
  {0, 1} \cup { k * grpcMaxDataSize + d : k \in 1..MaxChunks, d \in {-1, 0, 1} }

\* the agent as connect() leaves it when held is true, as init() leaves it
\* otherwise, with copyFile called
InitCopy ==
  /\ dead = FALSE
  /\ \E held \in BOOLEAN :
       /\ client = IF held THEN 1 ELSE NilClient
       /\ reqHandlers = IF held THEN ReqTable ELSE NilMap
       /\ open = IF held THEN {1} ELSE {}
  /\ state \in LoadStates
  /\ keepConn \in BOOLEAN
  /\ dynamicTracing = FALSE
  /\ vmSocket = "socket"
  /\ mutex = NoThread
  /\ running = { p \in {state.ProxyPid} : p > 0 }
  /\ crashed = FALSE
  /\ InitOptions
  /\ sandbox = NoSharing
  /\ g = [t \in Threads |->
            IF t = 1 THEN [Idle EXCEPT !.op = "copyFile", !.pc = "cf_read"]
                     ELSE Idle]
  /\ nops = MaxOps
  /\ mdReturned = FALSE

NextCopy ==
  \/ \E t \in Threads, size \in FileSizes : CopyRead(t, size)
  \/ \E t \in Threads : CopyLoop(t)
  \/ \E t \in Threads : ConnStep(t)
  \/ \E t \in Threads : SendLookup(t)
  \/ \E t \in Threads : SendCall(t)
  \/ \E t \in Threads : SendWait(t)
  \/ \E t \in Threads : SendReturn(t)
  \/ \E t \in Threads : DiscLock(t)
  \/ \E t \in Threads : DiscBody(t)
  \/ \E t \in Threads : Return(t)
  \/ ProxyExit

SpecCopy == InitCopy /\ [][NextCopy]_vars

\* ---- createContainer handles the mounts of the specification ----

\* sources of mounts, and the mounts of a specification
MountSources ==
  { << >>, << "/" >>, << "a" >>, << "/", "a" >>, << "a", "/" >>,
    << "/", "a", "/", "b" >>, << ".", "." >>, << "/", "a", "/", ".", "." >> }
TypedMounts ==
  SeqsUpTo([Destination : {"/a", "/dev/shm"}, Source : MountSources,
            Type : {"ephemeral", "local", "bind"}], MaxMounts)

\* createContainer about to handle the mounts of any specification
InitMounts ==
  /\ dead = FALSE
  /\ client = NilClient
  /\ reqHandlers = NilMap
  /\ open = {}
  /\ state = [ProxyPid |-> 0, URL |-> ""]
  /\ keepConn = FALSE
  /\ dynamicTracing = FALSE
  /\ vmSocket = "socket"
  /\ mutex = NoThread
  /\ running = {}
  /\ crashed = FALSE
  /\ InitOptions
  /\ sandbox = NoSharing
  /\ \E m \in TypedMounts, size \in {0, 64} :
       g = [t \in Threads |->
              IF t = 1
                THEN [Idle EXCEPT
                        !.op = "createContainer", !.pc = "cc_mounts",
                        !.loc = [NoLocals EXCEPT !.mounts = m,
                                                 !.shmSize = size]]
                ELSE Idle]
  /\ nops = MaxOps
  /\ mdReturned = FALSE

NextMounts == \E t \in Threads : CreateMounts(t)

SpecMounts == InitMounts /\ [][NextMounts]_vars

\* ---- createContainer handles the devices and the block volumes ----

\* the devices of a container, each at a path of its own, and the mounts
\* of a container that have a block device
ContainerDevices ==
  SeqsUpTo({ [ID |-> id, ContainerPath |-> "/c/" \o id] :
               id \in { "blk", "pmem", "bad", "vhost", "vfio", "gone" } },
           MaxDevs)
DeviceMounts ==
  SeqsUpTo([Destination : {"/a"}, BlockDeviceID : DeviceIds, Type : {"bind"},
            Options : { << >>, << "ro" >> }], MaxVols)

\* createContainer about to append the devices of any container, under
\* any block device driver
InitBlock ==
  /\ dead = FALSE
  /\ client = NilClient
  /\ reqHandlers = NilMap
  /\ open = {}
  /\ state = [ProxyPid |-> 0, URL |-> ""]
  /\ keepConn = FALSE
  /\ dynamicTracing = FALSE
  /\ vmSocket = "socket"
  /\ mutex = NoThread
  /\ running = {}
  /\ crashed = FALSE
  /\ InitOptions
  /\ sandbox = NoSharing
  /\ \E d \in ContainerDevices, m \in DeviceMounts, drv \in BlockDeviceDrivers :
       g = [t \in Threads |->
              IF t = 1
                THEN [Idle EXCEPT
                        !.op = "createContainer", !.pc = "cc_mounts",
                        !.loc = [NoLocals EXCEPT !.devices = d,
                                                 !.blockMounts = m,
                                                 !.blockDeviceDriver = drv]]
                ELSE Idle]
  /\ nops = MaxOps
  /\ mdReturned = FALSE

NextBlock ==
  \/ \E t \in Threads : CreateMounts(t)
  \/ \E t \in Threads : CreateBlockVolumes(t)

SpecBlock == InitBlock /\ [][NextBlock]_vars

\* ---- concurrent callers of sendReq ----

\* every goroutine is in sendReq(request) with a request of a registered
\* kind, on an agent that holds a handle or not and keeps the connection
\* or not; nothing else runs
InitCallers ==
  /\ dead = FALSE
  /\ \E held \in BOOLEAN :
       /\ client = IF held THEN 1 ELSE NilClient
       /\ reqHandlers = IF held THEN ReqTable ELSE NilMap
       /\ open = IF held THEN {1} ELSE {}
  /\ state \in LoadStates
  /\ keepConn \in BOOLEAN
  /\ dynamicTracing = FALSE
  /\ vmSocket = "socket"
  /\ mutex = NoThread
  /\ running = { p \in {state.ProxyPid} : p > 0 }
  /\ crashed = FALSE
  /\ InitOptions
  /\ sandbox = NoSharing
  /\ g = [t \in Threads |->
            [Idle EXCEPT !.op = "sendReq", !.req = "grpc.CheckRequest",
                         !.pc = "c_dead"]]
  /\ nops = MaxOps
  /\ mdReturned = FALSE

SpecCallers == InitCallers /\ [][NextSend]_vars

\* ---- startProxy in every session ----

\* proxy states a session can have recorded when startProxy is called
RecordedStates == LoadStates \cup { [ProxyPid |-> 2, URL |-> "u2"] }

\* startSandbox about to call startProxy, with any proxy recorded, alive or
\* not, the connection kept or not, and a socket of a known type or not
InitProxy ==
  /\ dead = FALSE
  /\ client = NilClient
  /\ reqHandlers = NilMap
  /\ open = {}
  /\ state \in RecordedStates
  /\ keepConn \in BOOLEAN
  /\ dynamicTracing = FALSE
  /\ vmSocket \in {"socket", "invalid"}
  /\ mutex = NoThread
  /\ running \in SUBSET {1, 2}
  /\ crashed = FALSE
  /\ InitOptions
  /\ sandbox = NoSharing
  /\ g = [t \in Threads |->
            IF t = 1 THEN [Idle EXCEPT !.op = "startSandbox", !.pc = "ss_proxy"]
                     ELSE Idle]
  /\ nops = MaxOps
  /\ mdReturned = FALSE

NextProxy == \E t \in Threads : StartProxy(t)

SpecProxy == InitProxy /\ [][NextProxy]_vars

\* ---- properties ----

TypeOK ==
  /\ dead \in BOOLEAN
  /\ client \in Nat
  /\ mutex \in Threads \cup {NoThread}
  /\ open \subseteq HandleIds
  /\ \A t \in Threads : g[t].inflight = NilClient \/ g[t].pc \in {"s_wait", "r_wait"}

\* positions inside connect()
ConnPcs == { "c_dead", "c_quick", "c_lock", "c_probe", "c_dial" }

\* goroutine t takes a step from position p
Steps(t, p) == g[t].pc = p /\ g'[t] # g[t]

\* errors of the rollback, which are logged
RollbackCalls == << "unmountHostMounts", "bindUnmountContainerRootfs" >>

\* goroutine t has returned from createContainer
Created(t) == g[t].op = "createContainer" /\ g[t].pc = "done"

\* C1: goroutines that call connect() concurrently on an agent that is not
\* dead and holds no handle make one dial attempt in all, and all return the
\* same outcome. On the steps: a dial attempt is made only while no attempt
\* has failed (the agent is not dead) and none has succeeded (no handle is
\* held), and no caller succeeds once an attempt has failed.
C1_OneDialSameOutcome ==
  [][ \A t \in Threads :
        /\ Steps(t, "c_dial") => (~dead /\ client = NilClient)
        /\ (g[t].pc \in ConnPcs /\ g'[t].pc = "done" /\ g'[t].cres = "ok")
             => ~dead' ]_vars

\* C2: a failed dial leaves the agent dead, and a connect() that starts on
\* a dead agent returns the "Dead agent" error at once: it takes no lock,
\* probes no proxy and dials nothing.
C2_DeadQuarantine ==
  [][ /\ (\E t \in Threads : g'[t].cres = "dialfail") => dead'
      /\ \A t \in Threads :
           (dead /\ Steps(t, "c_dead")) =>
             /\ g'[t].cres = "dead"
             /\ g'[t].pc \notin ConnPcs
             /\ g'[t].ret \in {"dead", "connerr"}
             /\ UNCHANGED << sessVars, envVars >> ]_vars

C2_Witness ==
  /\ dead
  /\ \A u \in Threads : g[u].op # "markDead"
  /\ ~mdReturned
  /\ \E t \in Threads : g[t].pc = "done" /\ g[t].cres = "dead"

\* C3: with connect, disconnect, sendReq, the stream reads and markDead
\* interleaved in any way, at most one handle is open, and an open handle
\* is the one the agent holds: a handle is made only when none is held and
\* is dropped only once closed.
C3_AtMostOneOpen ==
  /\ Cardinality(open) <= 1
  /\ open \subseteq {client}

C3_Witness ==
  /\ open = {client}
  /\ \E t, u \in Threads :
       /\ g[t].pc \in {"s_wait", "r_wait"} /\ g[t].inflight = client
       /\ g[u].op = "disconnect" /\ g[u].pc = "done" /\ g[u].ret = "err"

\* C4: every write of k.client is made by a goroutine that holds the lock.
C4_WritesUnderLock ==
  [][ client' # client =>
        \E t \in Threads : mutex = t /\ g'[t] # g[t] ]_vars

\* C5: once markDead() has returned, the agent holds no handle and no
\* handler table, in that state and in every later one.
C5_MarkDeadClears ==
  mdReturned => (client = NilClient /\ reqHandlers = NilMap)

\* C6: k.dead never goes back from true to false.
C6_DeadOneWay == [][ dead => dead' ]_vars

C6_Witness ==
  /\ dead
  /\ \E t \in Threads :
       g[t].op = "startSandbox" /\ g[t].pc = "done" /\ g[t].cres = "dead"

\* C7: k.dead becomes true only in the step of connect() whose dial fails
\* or in the first step of markDead(); no failed call, failed probe,
\* invalid request or failed disconnect sets it.
C7_DeadOnlyByDialOrMarkDead ==
  [][ (~dead /\ dead') =>
        \E t \in Threads :
          \/ Steps(t, "c_dial") /\ g'[t].cres = "dialfail"
          \/ Steps(t, "m_set") ]_vars

C7_Witness ==
  /\ ~dead
  /\ \E t \in Threads :
       g[t].pc = "done" /\ g[t].op = "sendReq" /\ g[t].ret = "rpcerr"

\* C8: with a proxy pid above zero whose probe fails, connect() returns the
\* "Proxy is not running" error without dialing and without touching the
\* handle or the dead flag; with a live proxy, or with no pid recorded
\* (pid <= 0), it goes on to dial.
C8_ProbeBeforeDial ==
  [][ \A t \in Threads :
        Steps(t, "c_probe") =>
          IF state.ProxyPid > 0 /\ state.ProxyPid \notin running
            THEN /\ g'[t].cres = "proxy"
                 /\ g'[t].pc \notin ConnPcs
                 /\ mutex' = NoThread
                 /\ UNCHANGED << client, reqHandlers, dead, envVars >>
            ELSE /\ g'[t].pc = "c_dial"
                 /\ g'[t].cres = g[t].cres ]_vars

C8_Witness ==
  /\ client = NilClient
  /\ open = {}
  /\ state.ProxyPid > 0
  /\ \E t \in Threads : g[t].pc = "done" /\ g[t].cres = "proxy"

\* C9: without keepConn, when a sendReq or a stream read that ran alone has
\* returned, the channel is closed and the agent holds no handle.
C9_ConnectPerCall ==
  \A t \in Threads :
    ( /\ ~keepConn
      /\ nops = 1
      /\ g[t].pc = "done"
      /\ g[t].op \in {"sendReq", "readStream"} ) =>
        (client = NilClient /\ open = {})

C11_Dispatch ==
  [][ /\ Cardinality(ReqTable) = 31
      /\ \A a, b \in ReqTable : a # b => installReqFunc[a] # installReqFunc[b]
      /\ \A t \in Threads :
           /\ Steps(t, "s_lookup") =>
                IF g[t].req = "" \/ g[t].req \notin ReqTable
                  THEN /\ g'[t].ret = "invalid"
                       /\ g'[t].pc \notin {"s_call", "s_wait"}
                       /\ g'[t].call = ""
                  ELSE g'[t].pc = "s_call"
           /\ Steps(t, "s_call") =>
                /\ g'[t].pc = "s_wait"
                /\ g'[t].call = installReqFunc[g[t].req]
                /\ g'[t].inflight = client /\ client # NilClient
           /\ (g'[t].call # "" /\ g[t].call = "") => g[t].pc = "s_call"
           /\ (g'[t].pc = "s_call" /\ g[t].pc # "s_call") =>
                g[t].pc = "s_lookup" ]_vars

C11_Witness ==
  \E t \in Threads :
    /\ g[t].pc = "s_wait"
    /\ g[t].req = "grpc.WriteStreamRequest"
    /\ g[t].call = "WriteStdin"

\* C12: the context of a dispatched call depends on the request kind only:
\* CheckRequest has the 30 s timeout, WaitProcessRequest and
\* GetOOMEventRequest have no timeout and no cancel function, every other
\* registered kind has the 60 s timeout.
C12_Timeouts ==
  \A t \in Threads :
    g[t].pc \in {"s_call", "s_wait"} =>
      CASE g[t].req = "grpc.CheckRequest" ->
             g[t].ctx.timeout = 30 /\ g[t].ctx.cancel
        [] g[t].req \in {"grpc.WaitProcessRequest", "grpc.GetOOMEventRequest"} ->
             g[t].ctx.timeout = NoTimeout /\ ~g[t].ctx.cancel
        [] OTHER ->
             g[t].ctx.timeout = 60 /\ g[t].ctx.cancel

C12_Witness ==
  \E t \in Threads :
    /\ g[t].pc = "s_wait"
    /\ g[t].req = "grpc.GetOOMEventRequest"
    /\ g[t].ctx = Background

\* the group of a network configuration call: interfaces, then routes, then
\* neighbours; the calls that follow them come last
NetGroup(req) ==
  CASE req = "grpc.UpdateInterfaceRequest" -> 1
    [] req = "grpc.UpdateRoutesRequest" -> 2
    [] req = "grpc.AddARPNeighborsRequest" -> 3
    [] OTHER -> 4

C14_ARPTolerance ==
  [][ \A t \in Threads :
        (g[t].op = "startSandbox" /\ Steps(t, "s_ret") /\ g[t].ret # "panic") =>
          CASE g[t].req = "grpc.AddARPNeighborsRequest"
                 /\ g[t].ret \in {"ok", "unimplemented"} ->
                 /\ g'[t].pc = "c_dead"
                 /\ g'[t].req = "grpc.CreateSandboxRequest"
            [] g[t].req \in {"grpc.AddARPNeighborsRequest",
                             "grpc.UpdateInterfaceRequest",
                             "grpc.UpdateRoutesRequest"}
                 /\ g[t].ret \notin {"ok", "unimplemented"} ->
                 /\ g'[t].pc = "ss_fail"
                 /\ g'[t].ret = g[t].ret
            [] g[t].req \in {"grpc.UpdateInterfaceRequest",
                             "grpc.UpdateRoutesRequest"}
                 /\ g[t].ret = "unimplemented" ->
                 /\ g'[t].pc = "ss_fail"
                 /\ g'[t].ret = g[t].ret
            [] OTHER -> TRUE ]_vars

C14_Witness ==
  \E t \in Threads :
    /\ g[t].op = "startSandbox"
    /\ g[t].pc = "s_wait"
    /\ g[t].call = "CreateSandbox"
    /\ g[t].ret = "unimplemented"

\* C15: stopSandbox sends DestroySandbox, then StopTracing only with
\* dynamic tracing, then stops the proxy, then clears the recorded proxy
\* pid and URL; a step that fails ends stopSandbox with that error, no later
\* step is taken and the recorded pid and URL stay as they were.
C15_StopOrder ==
  [][ \A t \in Threads :
        g[t].op = "stopSandbox" =>
          /\ (Steps(t, "s_ret") /\ g[t].ret # "panic") =>
               CASE g[t].ret # "ok" ->
                      g'[t].pc = "done" /\ g'[t].ret = g[t].ret
                 [] g[t].ret = "ok" /\ dynamicTracing
                      /\ g[t].req = "grpc.DestroySandboxRequest" ->
                      /\ g'[t].pc = "c_dead"
                      /\ g'[t].req = "grpc.StopTracingRequest"
                 [] OTHER -> g'[t].pc = "st_stop" /\ g'[t].req = g[t].req
          /\ (Steps(t, "s_call") /\ g'[t].call # "") =>
               g'[t].call \in {"DestroySandbox", "StopTracing"}
          /\ Steps(t, "st_stop") =>
               /\ g'[t].pc = "done"
               /\ \/ /\ state' = [ProxyPid |-> -1, URL |-> ""]
                     /\ state.ProxyPid \notin running'
                     /\ g'[t].ret = "ok"
                  \/ /\ state' = state
                     /\ g'[t].ret = "stoperr"
          /\ (g[t].pc # "st_stop" /\ g[t].pc # "idle") => state' = state ]_vars

C15_Witness ==
  /\ dynamicTracing
  /\ state = [ProxyPid |-> -1, URL |-> ""]
  /\ \E t \in Threads :
       g[t].op = "stopSandbox" /\ g[t].pc = "done" /\ g[t].ret = "ok"

\* C16: when createContainer returns an error, whatever step failed, the
\* rollback has run once: unmountHostMounts, then
\* bindUnmountContainerRootfs, the second also when the first failed; the
\* error returned is the one of the step that failed, which no rollback
\* step changes. When createContainer succeeds (or the process ends in a
\* panic) no rollback step has run.
C16_RollbackOnce ==
  /\ [](\A t \in Threads :
          Created(t) =>
            IF g[t].ret \in {"ok", "panic"}
              THEN g[t].loc.log = << >> /\ g[t].loc.err = ""
              ELSE /\ [i \in 1..Len(g[t].loc.log) |-> g[t].loc.log[i].call]
                        = RollbackCalls
                   /\ g[t].ret = g[t].loc.err)
  /\ [][ \A t \in Threads :
           /\ (g[t].loc.err # "" /\ g'[t].op = "createContainer")
                => g'[t].loc.err = g[t].loc.err
           /\ g'[t].loc.log # g[t].loc.log
                => (g[t].loc.err # "" \/ g'[t].pc = "idle") ]_vars

C16_Witness ==
  \E t \in Threads :
    /\ Created(t)
    /\ g[t].ret = "prepareAndStartShim"
    /\ g[t].loc.log = << [call |-> "unmountHostMounts", failed |-> TRUE],
                         [call |-> "bindUnmountContainerRootfs", failed |-> FALSE] >>

\* a block volume of goroutine t is mounted where the specification has no
\* mount
Unmatched(t) ==
  \E i \in 1..Len(g[t].loc.volumeStorages) :
    \A j \in 1..Len(g[t].loc.mounts) :
      g[t].loc.mounts[j].Destination # g[t].loc.volumeStorages[i].MountPoint

\* C17: when a block volume is mounted at a destination that no mount of
\* the specification has, replaceOCIMountsForStorages fails with the error
\* "OCI mount not found for block volume" and createContainer returns it
\* without building or sending the CreateContainer request, whatever the
\* mounts and the volumes are.
C17_MountNotFound ==
  [][ \A t \in Threads :
        (Steps(t, "cc_replace") /\ Unmatched(t)) =>
          /\ g'[t].loc.err = "OCI mount not found for block volume"
          /\ g'[t].pc = "cc_defer" ]_vars

\* goroutine t has built its CreateContainerRequest
Built(t) ==
  /\ g[t].op = "createContainer"
  /\ g[t].req = "grpc.CreateContainerRequest"

\* the pid entries of a list of namespaces
PidEntries(namespaces) ==
  { namespaces[i] : i \in { j \in 1..Len(namespaces) :
                              namespaces[j].Type = "pid" } }

\* C18: for every list of namespaces, the request asks for the sandbox pid
\* namespace when the specification has a pid entry with a path, does not
\* when its pid entries have no path, and the namespaces sent to the guest
\* have no pid entry.
C18_PidNamespace ==
  \A t \in Threads :
    Built(t) =>
      LET pids == PidEntries(g[t].loc.ociNamespaces)
      IN  /\ (\E n \in pids : n.Path # "") => g[t].loc.sharedPidNs
          /\ (pids # {} /\ \A n \in pids : n.Path = "")
               => ~g[t].loc.sharedPidNs
          /\ PidEntries(g[t].loc.namespaces) = {}

\* the entries the constrainer keeps
Kept(namespaces) ==
  SelectSeq(namespaces, LAMBDA n : n.Type \notin {"network", "cgroup"})

\* C20: the constrainer drops every network and cgroup entry of the list
\* of namespaces and keeps the others in their order, each with an empty
\* path.
C20_ConstrainNamespaces ==
  [][ \A t \in Threads :
        Steps(t, "cc_constrain") =>
          g'[t].loc.namespaces =
            [i \in 1..Len(Kept(g[t].loc.namespaces)) |->
               [Type |-> Kept(g[t].loc.namespaces)[i].Type, Path |-> ""]] ]_vars

C20_Witness ==
  \E t \in Threads :
    /\ Built(t)
    /\ g[t].loc.ociNamespaces = << [Type |-> "mount", Path |-> "/proc/1/ns"],
                                   [Type |-> "network", Path |-> "/proc/1/ns"],
                                   [Type |-> "ipc", Path |-> ""] >>
    /\ g[t].loc.namespaces = << [Type |-> "mount", Path |-> ""],
                                [Type |-> "ipc", Path |-> ""] >>

\* the values that read as true
TrueValues == { "1", "t", "T", "TRUE", "true", "True" }

\* C19: the request carries AgentPidns true only if the environment of the
\* command has a KATA_AGENT_PIDNS entry whose value reads as true and the
\* sandbox configuration enables the sharing; when the configuration does
\* not enable it the request carries false whatever the environment is.
C19_AgentPidNs ==
  \A t \in Threads :
    Built(t) =>
      /\ g[t].loc.agentPidNs =>
           /\ g[t].loc.enableAgentPidNs
           /\ \E i \in 1..Len(g[t].loc.envs) :
                /\ g[t].loc.envs[i].Var = agentPidEnv
                /\ g[t].loc.envs[i].Value \in TrueValues
      /\ ~g[t].loc.enableAgentPidNs => ~g[t].loc.agentPidNs

C19_Witness ==
  \E t \in Threads :
    /\ Built(t)
    /\ g[t].loc.agentPidNs
    /\ g[t].loc.envs = << [Var |-> agentPidEnv, Value |-> "yes"],
                          [Var |-> agentPidEnv, Value |-> "1"] >>

\* goroutine t runs the constrainer, which returns
Constrains(t) == Steps(t, "cc_constrain") /\ g'[t].ret # "panic"

\* C21: the constrainer leaves no resources but those of the CPU: devices,
\* pids, block I/O, hugepage limits, network and memory are cleared; of
\* the CPU the cpus and mems are emptied and the shares, the quota and the
\* period are kept.
C21_OnlyCPU ==
  [][ \A t \in Threads :
        Constrains(t) =>
          LET in == g[t].loc.spec.Resources[1]
              out == g'[t].loc.spec.Resources[1]
          IN  /\ out.Devices = "nil" /\ out.Pids = "nil"
              /\ out.BlockIO = "nil" /\ out.HugepageLimits = "nil"
              /\ out.Network = "nil" /\ out.Memory = "nil"
              /\ (in.CPU = Nil) = (out.CPU = Nil)
              /\ in.CPU # Nil =>
                   /\ out.CPU[1].Cpus = "" /\ out.CPU[1].Mems = ""
                   /\ out.CPU[1].Shares = in.CPU[1].Shares
                   /\ out.CPU[1].Quota = in.CPU[1].Quota
                   /\ out.CPU[1].Period = in.CPU[1].Period ]_vars

\* the cgroups path slice:prefix:name written as /prefix/name
SlashPrefixName(cgroupsPath) ==
  LET parts == Split(cgroupsPath, ":")
  IN  << "/" >> \o parts[2] \o << "/" >> \o parts[3]

\* the prefix or the name of the path slice:prefix:name is "." or ".."
DotNames(cgroupsPath) ==
  \E i \in {2, 3} :
    Split(cgroupsPath, ":")[i] \in { << "." >>, << ".", "." >> }

\* C22 as stated: a cgroups path of the form slice:prefix:name is sent as
\* /prefix/name, and a path of any other form is sent as it is.
C22_CgroupsPath ==
  \A t \in Threads :
    Built(t) =>
      g[t].loc.spec.CgroupsPath =
        IF IsSystemdCgroup(g[t].loc.oci.CgroupsPath)
          THEN SlashPrefixName(g[t].loc.oci.CgroupsPath)
          ELSE g[t].loc.oci.CgroupsPath

\* C22 as amended: a cgroups path of the form slice:prefix:name whose
\* prefix and name are neither "." nor ".." is sent as /prefix/name, and a
\* path of any other form is sent as it is.
C22_CgroupsPathOfNames ==
  \A t \in Threads :
    Built(t) =>
      /\ (IsSystemdCgroup(g[t].loc.oci.CgroupsPath)
            /\ ~DotNames(g[t].loc.oci.CgroupsPath))
           => g[t].loc.spec.CgroupsPath
                = SlashPrefixName(g[t].loc.oci.CgroupsPath)
      /\ ~IsSystemdCgroup(g[t].loc.oci.CgroupsPath)
           => g[t].loc.spec.CgroupsPath = g[t].loc.oci.CgroupsPath

C22_Witness ==
  \E t \in Threads :
    /\ Built(t)
    /\ g[t].loc.oci.CgroupsPath = << "a", ".", ":", "a", ":", "a" >>
    /\ g[t].loc.spec.CgroupsPath = << "/", "a", "/", "a" >>

\* goroutine t of startSandbox has its hostname ready for CreateSandbox
HostnameSet(t) ==
  g[t].op = "startSandbox" /\ g[t].pc \notin {"idle", "ss_proxy", "ss_dns"}

\* C23: the hostname of CreateSandbox is the hostname of the configuration
\* when that is at most maxHostnameLen (64) long, and its first 64 bytes
\* otherwise; it is never longer than 64.
C23_Hostname ==
  \A t \in Threads :
    HostnameSet(t) =>
      LET h == g[t].loc.hostname
          sent == g[t].loc.reqHostname
      IN  /\ Len(sent) <= 64
          /\ Len(h) <= 64 => sent = h
          /\ Len(h) > 64 =>
               /\ Len(sent) = 64
               /\ \A i \in 1..64 : sent[i] = h[i]

C23_Witness ==
  \E t \in Threads :
    /\ HostnameSet(t)
    /\ Len(g[t].loc.hostname) = 65
    /\ Len(g[t].loc.reqHostname) = 64

\* goroutine t has returned from a copyFile that read its file
Copied(t) ==
  /\ g[t].op = "copyFile"
  /\ g[t].pc = "done"
  /\ g[t].ret \notin {"Could not get file information", "Could not read file"}

\* the bytes of data in the requests of a list
RECURSIVE DataBytes(_)
DataBytes(calls) ==
  IF calls = << >> THEN 0
  ELSE (IF Head(calls).Data = Nil THEN 0 ELSE Head(calls).Data[1].Len)
         + DataBytes(Tail(calls))

\* C24: copyFile of an empty file gives sendReq one CopyFile request, which
\* has no data and the file size 0.
C24_EmptyFile ==
  \A t \in Threads :
    (Copied(t) /\ g[t].loc.fileSize = 0) =>
      g[t].loc.calls = << [Data |-> Nil, Offset |-> 0, FileSize |-> 0] >>

C24_Witness ==
  \E t \in Threads :
    /\ Copied(t)
    /\ g[t].ret = "ok"
    /\ g[t].loc.fileSize = 0
    /\ Len(g[t].loc.calls) = 1

\* C25: a copyFile of N > 0 bytes whose requests all succeed makes
\* ceil(N / grpcMaxDataSize) requests, with offsets that grow from one
\* request to the next and data of N bytes in all.
C25_ChunkCount ==
  \A t \in Threads :
    (Copied(t) /\ g[t].ret = "ok" /\ g[t].loc.fileSize > 0) =>
      LET calls == g[t].loc.calls
          N == g[t].loc.fileSize
      IN  /\ Len(calls) = (N + 1048576 - 1) \div 1048576
          /\ \A i \in 1..(Len(calls) - 1) : calls[i].Offset < calls[i + 1].Offset
          /\ DataBytes(calls) = N

C25_Witness ==
  \E t \in Threads :
    /\ Copied(t)
    /\ g[t].ret = "ok"
    /\ g[t].loc.fileSize = 2 * 1048576 + 1
    /\ Len(g[t].loc.calls) = 3

\* the places of the mounts of a list that have the type "ephemeral"
EphemeralPlaces(mounts) ==
  { i \in 1..Len(mounts) : mounts[i].Type = "ephemeral" }

\* the number of members of S below or at i
Rank(S, i) == Cardinality({ j \in S : j <= i })

\* C26: every mount of type "ephemeral" with a source of basename X gets as
\* source the ephemeral directory joined with X and the type "bind", and
\* one storage (driver "ephemeral", source and fstype "tmpfs") mounted at
\* that new source; a mount of another type gets no storage and is left as
\* it is by handleEphemeralStorage (here: a mount that is neither at
\* /dev/shm nor of type "local", which handleShm and handleLocalStorage
\* rewrite).
C26_Ephemeral ==
  [][ \A t \in Threads :
        (Steps(t, "cc_mounts") /\ g'[t].pc = "cc_block") =>
          LET in == g[t].loc.mounts
              out == g'[t].loc.mounts
              sto == g'[t].loc.epheStorages
              eph == EphemeralPlaces(in)
          IN  /\ Len(out) = Len(in)
              /\ Len(sto) = Cardinality(eph)
              /\ \A i \in eph :
                   /\ out[i].Source = JoinPath(<< "/", "e" >>, Base(in[i].Source))
                   /\ out[i].Type = "bind"
                   /\ out[i].Destination = in[i].Destination
                   /\ sto[Rank(eph, i)] =
                        [ Driver |-> "ephemeral", Source |-> "tmpfs",
                          Fstype |-> "tmpfs", MountPoint |-> out[i].Source ]
              /\ \A i \in (1..Len(in)) \ eph :
                   (in[i].Type # "local" /\ in[i].Destination # "/dev/shm")
                     => out[i] = in[i] ]_vars

C26_Witness ==
  \E t \in Threads :
    /\ g[t].op = "createContainer" /\ g[t].pc = "cc_block"
    /\ Len(g[t].loc.mounts) = 2
    /\ g[t].loc.mounts[1].Type = "local"
    /\ g[t].loc.mounts[2].Source = << "/", "e", "/", "b" >>
    /\ g[t].loc.epheStorages =
         << [ Driver |-> "ephemeral", Source |-> "tmpfs", Fstype |-> "tmpfs",
              MountPoint |-> << "/", "e", "/", "b" >> ] >>

\* the drive of the device of an id is a block drive of persistent memory
IsPmem(id) ==
  /\ GetDeviceByID(id) # Nil
  /\ GetDeviceByID(id)[1].DeviceType = "block"
  /\ GetDeviceByID(id)[1].Info # Nil
  /\ GetDeviceByID(id)[1].Info[1].Pmem

\* createContainer of goroutine t has appended the devices of the container
Appended(t) ==
  /\ g[t].op = "createContainer"
  /\ g[t].pc \in {"cc_block", "cc_replace", "cc_defer"}
  /\ g[t].loc.err \notin {"errorMissingOCISpec", "mountSharedDirMounts"}

\* the mounts of goroutine t that handleBlockVolumes makes a storage of
Volumes(t) ==
  SelectSeq(g[t].loc.blockMounts,
            LAMBDA m : GetDeviceByID(m.BlockDeviceID)[1].DeviceType
                         \in {"block", "vhost-user-blk"})

\* C27: no device of the container whose drive is persistent memory has a
\* device descriptor, before and after the block volumes are handled, and
\* the storage of a mount whose drive is persistent memory has the driver
\* "nvdimm" and the options ["dax"], under every block device driver and
\* for every option list of the mount
C27_Pmem ==
  \A t \in Threads :
    Appended(t) =>
      /\ \A i \in 1..Len(g[t].loc.devices), j \in 1..Len(g[t].loc.ctrDevices) :
           IsPmem(g[t].loc.devices[i].ID) =>
             g[t].loc.ctrDevices[j].ContainerPath
               # g[t].loc.devices[i].ContainerPath
      /\ (g[t].pc = "cc_replace") =>
           /\ Len(g[t].loc.volumeStorages) = Len(Volumes(t))
           /\ \A i \in 1..Len(Volumes(t)) :
                IsPmem(Volumes(t)[i].BlockDeviceID) =>
                  /\ g[t].loc.volumeStorages[i].Driver = "nvdimm"
                  /\ g[t].loc.volumeStorages[i].Options = << "dax" >>

\* a container with a device of persistent memory after a block device that
\* has a descriptor, and with a volume of persistent memory whose mount has
\* options, under a block device driver that handleDeviceBlockVolume does
\* not know
C27_Witness ==
  \E t \in Threads :
    /\ Appended(t)
    /\ g[t].pc = "cc_replace"
    /\ g[t].loc.blockDeviceDriver = "unknown"
    /\ Len(g[t].loc.ctrDevices) = 1
    /\ \E i \in 1..Len(g[t].loc.devices) :
         i > 1 /\ IsPmem(g[t].loc.devices[i].ID)
    /\ \E i \in 1..Len(Volumes(t)) :
         /\ IsPmem(Volumes(t)[i].BlockDeviceID)
         /\ Volumes(t)[i].Options = << "ro" >>

\* what a step of startProxy by goroutine t does, seen from the state
\* before and the state after it
ProxySpawned(t) == g'[t].loc.proxyPath = "start"
ProxyUntouched == state' = state /\ running' = running
ProxyRecorded(t) ==
  /\ state'.ProxyPid = g'[t].loc.pid
  /\ state'.URL = IF g'[t].loc.uri = "" THEN agentURL ELSE g'[t].loc.uri
  /\ g'[t].loc.stopped = IF state.URL # "" /\ state.URL # state'.URL
                           THEN Ptr(state.ProxyPid)
                           ELSE Nil

\* C28 as stated: no proxy is spawned when the proxy watches the console;
\* with a URL recorded and the connection kept, a proxy that is spawned is
\* given the recorded URL; in every other case a startProxy that returns
\* nil has spawned a proxy and recorded its pid and URL, after stopping the
\* recorded proxy when its URL is another one
C28_StartProxyAlwaysSpawns ==
  [][\A t \in Threads :
       Steps(t, "ss_proxy") =>
         /\ (g'[t].loc.proxyPath = "watched") =>
              ~ProxySpawned(t) /\ ProxyUntouched
         /\ (ProxySpawned(t) /\ state.URL # "" /\ keepConn) =>
              g'[t].loc.agentURL = state.URL
         /\ (g'[t].pc = "ss_dns" /\ g'[t].loc.proxyPath # "watched"
               /\ ~(state.URL # "" /\ keepConn)) =>
              ProxySpawned(t) /\ ProxyRecorded(t)]_vars

\* C28: no proxy is spawned when the proxy watches the console, nor when a
\* URL is recorded and the connection is not kept; with a URL recorded and
\* the connection kept, the proxy that is spawned is given the recorded
\* URL, and with no URL recorded it is given the URL of the agent; a
\* startProxy that spawned a proxy and returns nil has recorded the pid and
\* the URL of the new proxy (the URL of the agent when the proxy reports
\* none), and has stopped the recorded proxy, by its old pid, exactly when
\* a URL was recorded that is not the new one
C28_StartProxy ==
  [][\A t \in Threads :
       Steps(t, "ss_proxy") =>
         /\ (g'[t].loc.proxyPath = "watched") =>
              ~ProxySpawned(t) /\ ProxyUntouched
         /\ (g'[t].loc.proxyPath # "watched" /\ state.URL # "" /\ ~keepConn) =>
              /\ ~ProxySpawned(t) /\ ProxyUntouched
              /\ g'[t].pc = "ss_dns"
         /\ ProxySpawned(t) =>
              /\ state.URL = "" \/ keepConn
              /\ g'[t].loc.agentURL =
                   IF state.URL # "" THEN state.URL ELSE agentURL
         /\ (g'[t].pc = "ss_dns" /\ g'[t].loc.proxyPath # "watched"
               /\ (state.URL = "" \/ keepConn)) =>
              ProxySpawned(t) /\ ProxyRecorded(t)
         /\ ~ProxySpawned(t) => ProxyUntouched]_vars

\* startProxy has spawned a proxy with the recorded URL in a session that
\* keeps the connection, and has stopped the recorded proxy, whose URL was
\* another one than the new proxy's
C28_Witness ==
  \E t \in Threads :
    /\ g[t].pc = "ss_dns"
    /\ g[t].loc.proxyPath = "start"
    /\ keepConn
    /\ g[t].loc.agentURL = "u1"
    /\ state = [ProxyPid |-> 2, URL |-> "u2"]
    /\ g[t].loc.stopped = Ptr(1)
    /\ 1 \notin running

\* C29: a call of sendReq starts at most one wire call and its connect()
\* calls NewAgentClient at most once, whatever the kind of the request and
\* also after the call or the dial has failed; a failed dial is followed by
\* no wire call
C29_NoRetry ==
  \A t \in Threads :
    /\ g[t].wire <= 1
    /\ g[t].dials <= 1
    /\ (g[t].cres = "dialfail") => g[t].wire = 0

\* a sendReq has returned the error of its wire call, made on a handle its
\* own connect() dialed
C29_Witness ==
  \E t \in Threads :
    /\ g[t].op = "sendReq"
    /\ g[t].pc = "done"
    /\ g[t].ret = "rpcerr"
    /\ g[t].wire = 1
    /\ g[t].dials = 1

\* C30: while the wire call of a sendReq is in flight, the handle it runs
\* on is open and is still the handle of the agent, and a caller whose
\* connect() has returned nil finds the handler of its request in the
\* table and a handle to call it on, whether the connection is kept or not
C30_HandleStaysInFlight ==
  \A t \in Threads :
    /\ (g[t].pc = "s_wait") =>
         g[t].inflight \in open /\ client = g[t].inflight
    /\ (g[t].pc = "s_lookup" /\ g[t].req \in ReqTable) =>
         g[t].req \in reqHandlers
    /\ (g[t].pc = "s_call") => client # NilClient

\* the place of a request in startSandbox
SandboxRank(req) ==
  CASE req = "grpc.CheckRequest" -> 1
    [] req = "grpc.UpdateInterfaceRequest" -> 2
    [] req = "grpc.UpdateRoutesRequest" -> 3
    [] req = "grpc.AddARPNeighborsRequest" -> 4
    [] req = "grpc.CreateSandboxRequest" -> 5
    [] req = "grpc.StartTracingRequest" -> 6
    [] OTHER -> 0

\* goroutine t enters sendReq with a request
Sends(t) == g'[t].pc = "c_dead" /\ g[t].pc # "c_dead"

\* the request of goroutine t has succeeded for startSandbox
Succeeded(t) ==
  \/ g[t].ret = "ok"
  \/ g[t].ret = "unimplemented" /\ g[t].req = "grpc.AddARPNeighborsRequest"

FirstPidHasPath(namespaces) ==
  \E i \in 1..Len(namespaces) :
    /\ namespaces[i].Type = "pid"
    /\ namespaces[i].Path # ""
    /\ \A j \in 1..(i - 1) : namespaces[j].Type # "pid"

\* the constrainer has run on a list of namespaces
Constrained(namespaces) ==
  \A i \in 1..Len(namespaces) :
    namespaces[i].Path = "" /\ namespaces[i].Type \notin {"network", "cgroup"}

\* goroutine t starts the wire call of its request
Issues(t) == Steps(t, "s_call") /\ g'[t].call # ""

\* C32 as stated: the constrainer runs first and the sharing is decided
\* after it, from the pid entry of the specification as the constrainer
\* left it; both have run when the CreateContainer call is issued.
C32_ConstrainerFirst ==
  [][ \A t \in Threads :
        g[t].op = "createContainer" =>
          /\ Steps(t, "cc_pidns") =>
               /\ Constrained(g[t].loc.namespaces)
               /\ g'[t].loc.sharedPidNs = FirstPidHasPath(g[t].loc.namespaces)
          /\ Issues(t) =>
               /\ g'[t].call = "CreateContainer"
               /\ Constrained(g[t].loc.namespaces) ]_vars

\* C32: in createContainer the sharing of the pid namespace is decided
\* first, from the first pid entry of the specification as it is before
\* the constrainer has run, and the decision leaves the rest of the
\* specification alone; then the constrainer runs and leaves the decision
\* alone; both have run when the CreateContainer call is issued, and the
\* request carries the decision and the constrained namespaces.
C32_DecisionFirst ==
  [][ \A t \in Threads :
        g[t].op = "createContainer" =>
          /\ Steps(t, "cc_pidns") =>
               /\ g'[t].pc = "cc_agentpidns"
               /\ g[t].loc.namespaces = g[t].loc.ociNamespaces
               /\ g'[t].loc.sharedPidNs =
                    FirstPidHasPath(g[t].loc.ociNamespaces)
               /\ g'[t].loc.spec = g[t].loc.spec
          /\ (g'[t].pc = "cc_constrain" /\ g[t].pc # "cc_constrain") =>
               g[t].pc = "cc_agentpidns"
          /\ Steps(t, "cc_constrain") =>
               /\ g'[t].loc.sharedPidNs = g[t].loc.sharedPidNs
               /\ g'[t].pc = "c_dead" =>
                    /\ g'[t].req = "grpc.CreateContainerRequest"
                    /\ Constrained(g'[t].loc.namespaces)
          /\ (g'[t].pc = "c_dead" /\ g[t].pc # "c_dead") =>
               g[t].pc = "cc_constrain"
          /\ Issues(t) =>
               /\ g'[t].call = "CreateContainer"
               /\ Constrained(g[t].loc.namespaces)
               /\ g[t].loc.sharedPidNs =
                    FirstPidHasPath(g[t].loc.ociNamespaces) ]_vars

\* the CreateContainer call is in flight and asks for the pid namespace of
\* the sandbox, for a specification with a pid entry that has a path, a
\* network entry and an entry that is kept, sent without its path
C32_Witness ==
  \E t \in Threads :
    /\ g[t].op = "createContainer"
    /\ g[t].pc = "s_wait"
    /\ g[t].call = "CreateContainer"
    /\ g[t].loc.sharedPidNs
    /\ \E i \in 1..Len(g[t].loc.ociNamespaces) :
         g[t].loc.ociNamespaces[i].Type = "network"
    /\ Len(g[t].loc.namespaces) = 1
    /\ Constrained(g[t].loc.namespaces)

\* C33: in a copyFile of N > 0 bytes every request has the file size N and
\* data of at most grpcMaxDataSize bytes, its data begin in the file where
\* the data of the request before end, its offset is the number of bytes of
\* data in the requests before it, and when copyFile returns nil the data
\* sent are the N bytes of the file; after a request that failed no other
\* request is made and copyFile returns an error.
C33_Offsets ==
  /\ [](\A t \in Threads :
          (g[t].op = "copyFile" /\ g[t].loc.fileSize > 0) =>
            LET calls == g[t].loc.calls
            IN  /\ \A i \in 1..Len(calls) :
                     /\ calls[i].FileSize = g[t].loc.fileSize
                     /\ calls[i].Data # Nil
                     /\ calls[i].Data[1].Len >= 1
                     /\ calls[i].Data[1].Len <= grpcMaxDataSize
                     /\ calls[i].Data[1].From = DataBytes(SubSeq(calls, 1, i - 1))
                     /\ calls[i].Offset = DataBytes(SubSeq(calls, 1, i - 1))
                /\ DataBytes(calls) <= g[t].loc.fileSize
                /\ (g[t].pc = "done" /\ g[t].ret = "ok") =>
                     DataBytes(calls) = g[t].loc.fileSize)
  /\ [][ \A t \in Threads :
           (g[t].op = "copyFile" /\ g[t].loc.fileSize > 0
              /\ Steps(t, "s_ret") /\ g[t].ret # "ok") =>
             /\ g'[t].pc = "done"
             /\ g'[t].ret # "ok"
             /\ g'[t].loc.calls = g[t].loc.calls ]_vars

\* copyFile has returned nil after three requests, the last with less data
\* than the others, at the offset of two full requests
C33_Witness ==
  \E t \in Threads :
    /\ Copied(t)
    /\ g[t].ret = "ok"
    /\ Len(g[t].loc.calls) = 3
    /\ g[t].loc.calls[3].Offset = 2 * grpcMaxDataSize
    /\ g[t].loc.calls[3].Data[1].Len = 1

\* a mount of goroutine t has a block device that the sandbox does not find
Unresolved(t) ==
  \E i \in 1..Len(g[t].loc.blockMounts) :
    GetDeviceByID(g[t].loc.blockMounts[i].BlockDeviceID) = Nil

\* C34: when a mount has a block device that is not found,
\* handleBlockVolumes returns an error and no storage, also when it has
\* built the storage of an earlier mount, and createContainer runs its
\* rollback and returns the error without a request or a wire call.
C34_UnresolvedDevice ==
  /\ [][ \A t \in Threads :
           (Steps(t, "cc_block") /\ Unresolved(t)) =>
             /\ g'[t].pc = "cc_defer"
             /\ g'[t].loc.err # ""
             /\ g'[t].loc.volumeStorages = << >> ]_vars
  /\ [](\A t \in Threads :
          (g[t].op = "createContainer" /\ Unresolved(t)
             /\ g[t].pc \notin {"cc_rootfs", "cc_mounts", "cc_block"}) =>
            /\ g[t].pc \in {"cc_defer", "cc_unmount", "cc_unbind", "done"}
            /\ g[t].loc.err # ""
            /\ g[t].loc.volumeStorages = << >>
            /\ g[t].req = ""
            /\ g[t].wire = 0
            /\ (g[t].pc = "done") => g[t].ret = g[t].loc.err)

\* createContainer has returned the error of a device that is not found,
\* for a second mount after a mount whose device is a block drive
C34_Witness ==
  \E t \in Threads :
    /\ Created(t)
    /\ g[t].ret = "Failed to find device by id"
    /\ Len(g[t].loc.blockMounts) = 2
    /\ g[t].loc.blockMounts[1].BlockDeviceID = "blk"
    /\ g[t].loc.volumeStorages = << >>

\* ---- C35 ----

\* what constraintGRPCSpec makes of a specification it has already been
\* applied to: the fields and the namespaces after a second application
Reapplied(t) ==
  [ spec |-> constraintGRPCSpec(g'[t].loc.spec, g[t].loc.passSeccomp),
    namespaces |-> constraintNamespaces(g'[t].loc.namespaces) ]

\* the locals of createContainer but the specification under construction
OtherLocals(l) == [l EXCEPT !.spec = NoSpec, !.namespaces = << >>]

\* C35: the constrainer is deterministic and idempotent: when it returns,
\* the specification it leaves is the function of the specification and of
\* the pass-seccomp flag it was given, nothing but that specification is
\* changed (the session, the connections, the other locals of the caller
\* and the other callers are as before), and a second application to its
\* own output with the same flag leaves the specification as it is.
C35_Idempotent ==
  [][ \A t \in Threads :
        Constrains(t) =>
          /\ g'[t].loc.spec =
               constraintGRPCSpec(g[t].loc.spec, g[t].loc.passSeccomp)
          /\ g'[t].loc.namespaces = constraintNamespaces(g[t].loc.namespaces)
          /\ Reapplied(t).spec = g'[t].loc.spec
          /\ Reapplied(t).namespaces = g'[t].loc.namespaces
          /\ OtherLocals(g'[t].loc) = OtherLocals(g[t].loc)
          /\ UNCHANGED << sessVars, open, running, crashed, storageVars >>
          /\ \A u \in Threads \ {t} : g'[u] = g[u] ]_vars

\* the constrainer has returned a specification from which it removed a
\* VFIO device, rewrote a cgroups path or took namespaces and paths
C35_Witness ==
  \E t \in Threads :
    /\ g[t].pc = "c_dead" /\ g[t].req = "grpc.CreateContainerRequest"
    /\ \/ Len(g[t].loc.spec.Devices) < Len(g[t].loc.oci.Devices)
       \/ g[t].loc.spec.CgroupsPath # g[t].loc.oci.CgroupsPath
       \/ Len(g[t].loc.namespaces) = 2 /\ Len(g[t].loc.ociNamespaces) = 3

\* ---- successive startSandbox runs on one sandbox ----

\* sandboxes: without a shared filesystem, with 9p, and with virtio-fs for
\* each cache mode and cache size; with and without shm
SandboxConfigs ==
  { [NoSharing EXCEPT !.shmSize = m] : m \in {0, 64} }
  \cup { [NoSharing EXCEPT !.fsSharing = TRUE, !.Msize9p = 8192,
                           !.shmSize = m] : m \in {0, 64} }
  \cup { [NoSharing EXCEPT !.fsSharing = TRUE, !.SharedFS = "virtio-fs",
                           !.VirtioFSCache = c, !.VirtioFSCacheSize = n] :
           c \in {"none", "always"}, n \in {0, 1024} }

\* a process that has loaded a session and has run no operation yet
InitStorages ==
  /\ dead = FALSE
  /\ client = NilClient
  /\ reqHandlers = NilMap
  /\ open = {}
  /\ state = [ProxyPid |-> 0, URL |-> ""]
  /\ keepConn = FALSE
  /\ dynamicTracing = FALSE
  /\ vmSocket = "socket"
  /\ mutex = NoThread
  /\ running = {}
  /\ crashed = FALSE
  /\ InitOptions
  /\ sandbox \in SandboxConfigs
  /\ g = [t \in Threads |-> Idle]
  /\ nops = 0
  /\ mdReturned = FALSE

NextStorages ==
  \/ \E t \in Threads : CallStartSandbox(t)
  \/ \E t \in Threads : ConnStep(t)
  \/ \E t \in Threads : SendLookup(t)
  \/ \E t \in Threads : SendCall(t)
  \/ \E t \in Threads : SendWait(t)
  \/ \E t \in Threads : SendReturn(t)
  \/ \E t \in Threads : DiscLock(t)
  \/ \E t \in Threads : DiscBody(t)
  \/ \E t \in Threads : StartProxy(t)
  \/ \E t \in Threads : SandboxDNS(t)
  \/ \E t \in Threads : SandboxNet(t)
  \/ \E t \in Threads : SandboxFail(t)
  \/ \E t \in Threads : Return(t)

SpecStorages == InitStorages /\ [][NextStorages]_vars

\* ---- C36 ----

\* C36: setupStorages is repeatable: the storages a startSandbox run puts
\* into its CreateSandboxRequest are those the first call in the process
\* returns for the sandbox, however many calls came before, and their
\* option lists hold "msize=" and "dax" at most once.
C36_Repeatable ==
  \A t \in Threads :
    (g[t].op = "startSandbox" /\ g[t].req = "grpc.CreateSandboxRequest") =>
      /\ g[t].loc.storages =
           setupStorages(sandbox,
                         << "trans=virtio,version=9p2000.L,cache=mmap", "nodev" >>,
                         << >>).storages
      /\ \A i \in 1..Len(g[t].loc.storages) :
           LET o == g[t].loc.storages[i].Options
           IN  \A j, k \in 1..Len(o) :
                 (o[j] = o[k] /\ o[j] \in {"dax", MsizeOption(sandbox.Msize9p)})
                   => j = k

\* ---- C37 ----

\* every device of the container of goroutine t is in the device registry
AllResolve(t) ==
  \A i \in 1..Len(g[t].loc.devices) :
    GetDeviceByID(g[t].loc.devices[i].ID) # Nil

\* the devices of the container that are to have a descriptor: block and
\* vhost-user-block devices with a drive that is not persistent memory
Described(devices) ==
  SelectSeq(devices,
            LAMBDA dev :
              /\ GetDeviceByID(dev.ID)[1].DeviceType \in {"block", "vhost-user-blk"}
              /\ GetDeviceByID(dev.ID)[1].Info # Nil
              /\ ~IsPmem(dev.ID))

\* C37: appendDevices emits descriptors one-to-one: when every device id of
\* the container resolves, the list it returns holds one descriptor for
\* each block or vhost-user-block device that is not persistent memory, in
\* the order of the container, none for a device of another type, and none
\* twice.
C37_OneToOne ==
  \A t \in Threads :
    (Appended(t) /\ AllResolve(t)) =>
      /\ Len(g[t].loc.ctrDevices) = Len(Described(g[t].loc.devices))
      /\ \A j \in 1..Len(g[t].loc.ctrDevices) :
           j <= Len(Described(g[t].loc.devices)) =>
             g[t].loc.ctrDevices[j].ContainerPath
               = Described(g[t].loc.devices)[j].ContainerPath

\* ---- C38 ----

\* C38: the list appendDevices returns extends what it had: the descriptors
\* built for the first devices of the container, as long as their ids
\* resolve, are the beginning of the list the container goes on with,
\* whatever comes after them, a device whose id does not resolve included.
C38_Extends ==
  \A t \in Threads :
    Appended(t) =>
      \A n \in 0..Len(g[t].loc.devices) :
        (\A i \in 1..n : GetDeviceByID(g[t].loc.devices[i].ID) # Nil) =>
          LET built == appendDevices(<< >>, SubSeq(g[t].loc.devices, 1, n),
                                     g[t].loc.blockDeviceDriver)
          IN  /\ Len(built) <= Len(g[t].loc.ctrDevices)
              /\ SubSeq(g[t].loc.ctrDevices, 1, Len(built)) = built

\* ---- C40 ----

\* createContainer of goroutine t has returned an error to its caller
CreateFailed(t) ==
  /\ g[t].op = "createContainer"
  /\ g[t].pc = "done"
  /\ g[t].ret \notin {"ok", "panic"}

\* the rollback of goroutine t has called RemoveContainer
Removed(t) ==
  \E i \in 1..Len(g[t].loc.log) : g[t].loc.log[i].call = "RemoveContainer"

\* C40: when createContainer returns an error, no container created by the
\* call remains in the guest: the CreateContainer call was not sent or did
\* not succeed, or the rollback has called RemoveContainer.
C40_NoContainerLeft ==
  \A t \in Threads :
    CreateFailed(t) => (~g[t].loc.created \/ Removed(t))

\* ---- C39 ----

\* startSandbox of goroutine t has returned an error to its caller
SandboxFailed(t) ==
  /\ g[t].op = "startSandbox"
  /\ g[t].pc = "done"
  /\ g[t].ret \notin {"ok", "panic"}

\* the session records a proxy as its own
Recorded == state.ProxyPid > 0 /\ state.URL # ""

\* C39: after startSandbox has returned an error the session is consistent
\* with the proxy: the proxy it records as its own, if any, has not been
\* stopped, and a startSandbox that takes the recorded proxy as started
\* already finds it alive.
C39_ConsistentAfterFailure ==
  \A t \in Threads :
    /\ (SandboxFailed(t) /\ Recorded) => state.ProxyPid \in running
    /\ (g[t].op = "startSandbox" /\ g[t].pc = "ss_dns"
          /\ g[t].loc.proxyPath = "recorded" /\ Recorded)
         => state.ProxyPid \in running

====
